---- MODULE Spec2Model ----
(***************************************************************************)
(* PagePilotAI: the per-key job supervisor (src/src/ai/jobManager.ts),     *)
(* the preview applicator (src/src/core/pagePilot.ts) and the model        *)
(* transport (generateScript of createModelClient) as state machines.      *)
(*                                                                         *)
(* JavaScript runs one synchronous segment at a time.  Every action below  *)
(* is one such segment: a call up to its first await, or the continuation  *)
(* that runs when an awaited promise has settled.                          *)
(***************************************************************************)
EXTENDS Integers, Sequences, FiniteSets, TLC

(***************************************************************************)
(* Bounds of the model.                                                    *)
(***************************************************************************)
MaxJobs == 2
MaxCalls == 3
MaxRegs == 2

Keys == {"tab-1", "tab-2"}
JobIds == 1..MaxJobs

\* What a task may fail with.  The task of job j resolves with ValueOf(j).
Failures == {"abort", "boom"}
ValueOf(j) == j

VARIABLES
    jobs,       \* JobManager.jobs: the Map key -> controller of the active job
    job         \* every job started so far, in start order; job[j] is the
                \* job whose AbortController is j

jobVars == <<jobs, job>>

\* Script ids, what a preview's jsCode may do, and what a cleanup handler
\* may do when it is called.
Ids == {"s1", "s2"}
JsKinds == {"blank", "plain", "register", "return", "throw", "reject"}
CleanupKinds == {"ok", "throws", "rejects"}

VARIABLES
    previews,   \* pagePilot's Map script id -> PreviewEntry
    doc,        \* the <style> elements of the document, in document order
    call,       \* every applyPreviewScript call so far, in call order
    runs,       \* runs[h]: how often cleanup handler h has been invoked
    warn,       \* warn[h]: whether log.warn has reported a failure of
                \* cleanup handler h
    revoked,    \* history: the calls <<c, id>> during whose suspension
                \* removePreviewScript(id) or clearPreviewScripts() ran
    stored      \* history: the cleanup handlers that previews.set stored

previewVars == <<previews, doc, call, runs, warn, revoked, stored>>

VARIABLES
    exec        \* one executeJs call followed through the script it runs:
                \* the local variable cleanup, what the script has done
                \* so far, and the value executeJs resolves with

execVars == <<exec>>

VARIABLES
    gen,         \* one generateScript call: where it is, how it settled
    controller,  \* the AbortController created for the request
    abortSignal, \* params.abortSignal, the caller's cancellation token
    abortTimer,  \* the timeout timer of the request
    http         \* the deps.fetch call of the request

clientVars == <<gen, controller, abortSignal, abortTimer, http>>
VARIABLES
    parsed,      \* the last parseScriptPayload call: content and payload
    validated,   \* the last validateGeneratedScript call: payload and result
    built,       \* the last buildGenerationParams call: input and outcome
    hist         \* a chat log and the last normaliseHistory call on it

requestVars == <<parsed, validated, built, hist>>

VARIABLES
    ai           \* a handleAiGenerate request: its job and its reply

aiVars == <<ai>>

coreVars == <<jobVars, previewVars, execVars, clientVars, requestVars, aiVars>>

VARIABLES
    idb,          \* the tempScripts object store of IndexedDB: id -> record
    fallbackList, \* browser.storage.local['pagepilot.tempScripts']
    ops           \* every temp-script store operation so far, in call order

storeVars == <<idb, fallbackList, ops>>

VARIABLES
    temp          \* one handleTempScriptCreate request and the preview the
                  \* content script started for it

tempVars == <<temp>>

VARIABLES
    routed        \* the last request given to a createMessageRouter router

routerVars == <<routed>>

VARIABLES
    requests,     \* every AiGenerate request so far, in arrival order
    active        \* aiJobManager.jobs: job key -> request of the active job

flightVars == <<requests, active>>

VARIABLES
    capturingTabs, \* the background's set of capturing tabs
    isCapturing,   \* isCapturing of each tab's content script
    channel        \* the set of messages between background and content
                   \* scripts that are on their way

captureVars == <<capturingTabs, isCapturing, channel>>

extVars == <<storeVars, tempVars, routerVars, flightVars, captureVars>>

vars == <<jobs, job, previews, doc, call, runs, warn, revoked, stored, exec,
          gen, controller, abortSignal, abortTimer, http,
          parsed, validated, built, hist, ai,
          idb, fallbackList, ops, temp, routed, requests, active,
          capturingTabs, isCapturing, channel>>

(***************************************************************************)
(* Thrown values.  "abort" is a DOMException named AbortError, "boom" an   *)
(* Error; anything else has another name or none.                          *)
(***************************************************************************)
NameOf(f) ==
    CASE f = "abort" -> "AbortError"
      [] f = "boom" -> "Error"
      [] OTHER -> "undefined"

\* Map operations on the registry (a function whose domain is the key set).
MapHas(m, k) == k \in DOMAIN m
MapDelete(m, k) == [x \in (DOMAIN m) \ {k} |-> m[x]]
MapSet(m, k, v) == [x \in (DOMAIN m) \cup {k} |-> IF x = k THEN v ELSE m[x]]
EmptyMap == [x \in {} |-> 0]

\* A JobResult.  value 0 and error "-" stand for an absent field.
NoOutcome == [status |-> "none", value |-> 0, error |-> "-"]

Settled(r) == r.outcome.status # "none"

(***************************************************************************)
(* The try/catch of the wrapped task: the JobResult for a task that ended  *)
(* as t: "fulfilled" with value v, or "rejected"/"thrown" with failure f.  *)
(***************************************************************************)
OutcomeAllErrors(t, v, f) ==
    IF t = "fulfilled"
    THEN [status |-> "success", value |-> v, error |-> "-"]
    ELSE [status |-> "error", value |-> 0, error |-> f]

Outcome(t, v, f) ==
    IF t = "fulfilled"
    THEN [status |-> "success", value |-> v, error |-> "-"]
    ELSE IF NameOf(f) = "AbortError"
    THEN [status |-> "cancelled", value |-> 0, error |-> "-"]
    ELSE [status |-> "error", value |-> 0, error |-> f]

(***************************************************************************)
(* The finally block of the wrapped task: the job leaves the registry only *)
(* if the entry under its key is still its own controller.                 *)
(***************************************************************************)
FinallyNoOwnerCheck(m, k, j) == MapDelete(m, k)

Finally(m, k, j) ==
    IF MapHas(m, k) /\ m[k] = j THEN MapDelete(m, k) ELSE m

(***************************************************************************)
(* controller.abort() on job record r: the signal becomes aborted and the  *)
(* abort listeners run at once.  A cancellation-aware task (the tests'     *)
(* wait(ms, signal)) rejects its promise with an AbortError if the promise *)
(* is still pending; any other task does not look at the signal.           *)
(* how, by and hit record who signalled the token and whether that         *)
(* rejected the task's promise; the code does not read them.               *)
(***************************************************************************)
Abort(r, how, by) ==
    IF r.aborted THEN r
    ELSE LET hit == r.aware /\ r.task = "pending"
         IN [r EXCEPT !.aborted = TRUE,
                      !.task = IF hit THEN "rejected" ELSE @,
                      !.failure = IF hit THEN "abort" ELSE @,
                      !.how = how, !.by = by, !.hit = hit]

\* The entry is dropped and the token is left alone.
Evicted(r, how, by) ==
    IF r.how # "none" THEN r
    ELSE [r EXCEPT !.how = how, !.by = by, !.hit = r.aware /\ r.task = "pending"]

(***************************************************************************)
(* JobManager.cancel(key) on the state s = [jobs, job].                    *)
(***************************************************************************)
cancelNoAbort(s, k, how, by) ==
    IF ~MapHas(s.jobs, k) THEN s
    ELSE [jobs |-> MapDelete(s.jobs, k),
          job |-> [s.job EXCEPT ![s.jobs[k]] = Evicted(@, how, by)]]

cancelKeepEntry(s, k, how, by) ==
    IF ~MapHas(s.jobs, k) THEN s
    ELSE [jobs |-> s.jobs,
          job |-> [s.job EXCEPT ![s.jobs[k]] = Abort(@, how, by)]]

cancelEveryKey(s, k, how, by) ==
    [jobs |-> EmptyMap,
     job |-> [j \in DOMAIN s.job |->
                IF \E x \in DOMAIN s.jobs : s.jobs[x] = j
                THEN Abort(s.job[j], how, by) ELSE s.job[j]]]

cancel(s, k, how, by) ==
    IF ~MapHas(s.jobs, k) THEN s
    ELSE [jobs |-> MapDelete(s.jobs, k),
          job |-> [s.job EXCEPT ![s.jobs[k]] = Abort(@, how, by)]]

(***************************************************************************)
(* JobManager.cancelAll(): cancel(key) for every key of the registry.  The *)
(* Map iterator is live, and deleting the entry it stands on does not skip *)
(* the entries after it.                                                   *)
(***************************************************************************)
RECURSIVE cancelKeys(_, _)
cancelKeys(s, ks) ==
    IF ks = {} THEN s
    ELSE LET k == CHOOSE x \in ks : TRUE
         IN cancelKeys(cancel(s, k, "cancelAll", 0), ks \ {k})

cancelAllFirstOnly(s) ==
    IF DOMAIN s.jobs = {} THEN s
    ELSE cancel(s, CHOOSE x \in DOMAIN s.jobs : TRUE, "cancelAll", 0)

cancelAll(s) == cancelKeys(s, DOMAIN s.jobs)

Now == [jobs |-> jobs, job |-> job]

\* Line 16 of run: this.cancel(key), on behalf of the job j being started.
evictNothing(s, k, j) == s

evictPrevious(s, k, j) == cancel(s, k, "run", j)

(***************************************************************************)
(* JobManager.run(key, task), up to the first suspension.  cancel(key),    *)
(* a fresh controller, then the wrapped function runs synchronously into   *)
(* task(signal):                                                           *)
(*  - thrown = "no": the task returned a promise; the wrapped function     *)
(*    suspends at the await and the job is registered;                     *)
(*  - otherwise the task (a plain function) threw `thrown` before          *)
(*    returning a promise: catch and finally run at once, before           *)
(*    jobs.set(key, ...) on line 37.                                       *)
(* Tasks and abort listeners do not call back into the manager from       *)
(* inside run or cancel.                                                   *)
(***************************************************************************)
Run(k, aware, thrown) ==
    /\ Len(job) < MaxJobs
    /\ thrown # "no" => ~aware
    /\ LET j == Len(job) + 1
           c == evictPrevious(Now, k, j)
           fresh == [key |-> k, aware |-> aware, aborted |-> FALSE,
                     task |-> "pending", value |-> 0, failure |-> "-",
                     outcome |-> NoOutcome,
                     how |-> "none", by |-> 0, hit |-> FALSE]
           started ==
               IF thrown = "no" THEN fresh
               ELSE [fresh EXCEPT !.task = "thrown", !.failure = thrown,
                                  !.outcome = Outcome("thrown", 0, thrown)]
           afterWrapped ==
               IF thrown = "no" THEN c.jobs ELSE Finally(c.jobs, k, j)
       IN /\ jobs' = MapSet(afterWrapped, k, j)
          /\ job' = Append(c.job, started)
          /\ UNCHANGED <<previewVars, extVars, execVars, requestVars, aiVars, clientVars>>

\* The task's promise is fulfilled with the task's value.
TaskFulfil(j) ==
    /\ j \in DOMAIN job
    /\ job[j].task = "pending"
    /\ job' = [job EXCEPT ![j].task = "fulfilled", ![j].value = ValueOf(j)]
    /\ UNCHANGED <<jobs, previewVars, extVars, execVars, requestVars, aiVars, clientVars>>

\* The task's promise is rejected with f.
TaskReject(j, f) ==
    /\ j \in DOMAIN job
    /\ job[j].task = "pending"
    /\ job' = [job EXCEPT ![j].task = "rejected", ![j].failure = f]
    /\ UNCHANGED <<jobs, previewVars, extVars, execVars, requestVars, aiVars, clientVars>>

\* The wrapped function resumes after `await task(...)`: try/catch/finally.
Settle(j) ==
    /\ j \in DOMAIN job
    /\ job[j].task \in {"fulfilled", "rejected"}
    /\ ~Settled(job[j])
    /\ job' = [job EXCEPT ![j].outcome =
                  Outcome(job[j].task, job[j].value, job[j].failure)]
    /\ jobs' = Finally(jobs, job[j].key, j)
    /\ UNCHANGED <<previewVars, extVars, execVars, requestVars, aiVars, clientVars>>

Cancel(k) ==
    LET c == cancel(Now, k, "cancel", 0)
    IN jobs' = c.jobs /\ job' = c.job /\ UNCHANGED <<previewVars, extVars, execVars, requestVars, aiVars, clientVars>>

CancelAll ==
    LET c == cancelAll(Now)
    IN jobs' = c.jobs /\ job' = c.job /\ UNCHANGED <<previewVars, extVars, execVars, requestVars, aiVars, clientVars>>

(***************************************************************************)
(* The preview applicator.  The <style> element created by call c is       *)
(* element c, tagged with the call's script id; the cleanup handler that   *)
(* the script of call c supplies is handler c.  0 stands for undefined.    *)
(* Scripts and cleanup handlers do not touch the tagged <style> elements.  *)
(***************************************************************************)
NoCleanup == [h |-> 0, kind |-> "none"]

\* The value a failing preview script throws or rejects with, and the value
\* a failing cleanup handler throws or rejects with.
ScriptError == "script-error"
CleanupError == "cleanup-error"

StylesOf(d, id) == {i \in 1..Len(d) : d[i].tag = id}

\* element.remove(); removing undefined (el = 0) or a detached element
\* changes nothing.
RemoveEl(d, el) == SelectSeq(d, LAMBDA e : e.el # el)

KeepTagged(d, id) == d

\* document.querySelector('style[data-pagepilot-script-id="id"]')?.remove():
\* the first tagged element in document order.
RemoveFirstTagged(d, id) ==
    IF StylesOf(d, id) = {} THEN d
    ELSE LET i == CHOOSE x \in StylesOf(d, id) : \A y \in StylesOf(d, id) : x <= y
         IN RemoveEl(d, d[i].el)

\* attachStyle(id, cssCode) for call c; css says cssCode is non-empty.
attachStyle(d, id, css, c) ==
    IF ~css THEN [doc |-> d, el |-> 0]
    ELSE [doc |-> Append(d, [el |-> c, tag |-> id]), el |-> c]

\* entry.cleanup?.()
InvokeCleanup(r, cl) ==
    IF cl.h = 0 THEN r ELSE [r EXCEPT ![cl.h] = @ + 1]

\* log.warn('Cleanup for preview script threw an error.', ...) about the
\* failure of handler cl.  The .catch callback of a promise that is already
\* rejected is the next microtask and writes nothing but the log; it is
\* taken together with the segment that called the cleanup.
LogWarn(w, cl) ==
    IF cl.h = 0 THEN w ELSE [w EXCEPT ![cl.h] = TRUE]

(***************************************************************************)
(* applyPreviewScript, lines 155-165, on p = [previews, doc, runs, warn]:   *)
(* the teardown of the entry already registered under id.  The cleanup is  *)
(* called inside the argument of Promise.resolve(...): a rejection of its  *)
(* promise reaches the .catch, an exception thrown by the call itself      *)
(* leaves applyPreviewScript before the stylesheet and the entry are       *)
(* removed.                                                                *)
(***************************************************************************)
teardownKeepStyle(p, id) ==
    IF ~MapHas(p.previews, id)
    THEN [previews |-> p.previews, doc |-> p.doc, runs |-> p.runs,
          warn |-> p.warn, threw |-> FALSE]
    ELSE LET e == p.previews[id]
         IN IF e.cleanup.kind = "throws"
            THEN [previews |-> p.previews, doc |-> p.doc,
                  runs |-> InvokeCleanup(p.runs, e.cleanup),
                  warn |-> p.warn, threw |-> TRUE]
            ELSE [previews |-> MapDelete(p.previews, id), doc |-> p.doc,
                  runs |-> InvokeCleanup(p.runs, e.cleanup),
                  warn |-> IF e.cleanup.kind = "rejects"
                           THEN LogWarn(p.warn, e.cleanup) ELSE p.warn,
                  threw |-> FALSE]

teardown(p, id) ==
    IF ~MapHas(p.previews, id)
    THEN [previews |-> p.previews, doc |-> p.doc, runs |-> p.runs,
          warn |-> p.warn, threw |-> FALSE]
    ELSE LET e == p.previews[id]
         IN IF e.cleanup.kind = "throws"
            THEN [previews |-> p.previews, doc |-> p.doc,
                  runs |-> InvokeCleanup(p.runs, e.cleanup),
                  warn |-> p.warn, threw |-> TRUE]
            ELSE [previews |-> MapDelete(p.previews, id),
                  doc |-> RemoveEl(p.doc, e.styleEl),
                  runs |-> InvokeCleanup(p.runs, e.cleanup),
                  warn |-> IF e.cleanup.kind = "rejects"
                           THEN LogWarn(p.warn, e.cleanup) ELSE p.warn,
                  threw |-> FALSE]

(***************************************************************************)
(* executeJs.  A value is a record: a function has a handler number h > 0, *)
(* anything else has h = 0 (NoCleanup is undefined).                       *)
(***************************************************************************)
\* typeof v === 'function'
IsFunction(v) == v.h # 0

\* context.registerCleanup(callback), lines 124-128, on the local cleanup.
registerCleanup(cleanup, callback) ==
    IF IsFunction(callback) THEN callback ELSE cleanup

\* Lines 136-139 and 148: result is what await runner(context) gave.
registeredFirst(cleanup, result) ==
    IF IsFunction(cleanup) THEN cleanup
    ELSE IF IsFunction(result) THEN result ELSE cleanup

afterRunner(cleanup, result) ==
    IF IsFunction(result) THEN result ELSE cleanup

(***************************************************************************)
(* executeJs for call c with script behaviour js: whether it throws, and   *)
(* the cleanup handler it returns.  A blank jsCode runs nothing.  The      *)
(* script "register" passes its handler to registerCleanup, the script     *)
(* "return" returns it.                                                    *)
(***************************************************************************)
executeJs(c, js, hk) ==
    LET fn == [h |-> c, kind |-> hk]
        registered == IF js = "register" THEN registerCleanup(NoCleanup, fn)
                      ELSE NoCleanup
        result == IF js = "return" THEN fn ELSE NoCleanup
    IN [threw |-> js \in {"throw", "reject"},
        error |-> IF js \in {"throw", "reject"} THEN ScriptError ELSE "-",
        cleanup |-> IF js \in {"blank", "throw", "reject"} THEN NoCleanup
                    ELSE afterRunner(registered, result)]

(***************************************************************************)
(* One executeJs call, step by step.  The script calls registerCleanup any *)
(* number of times (at most MaxRegs here) with functions and with values   *)
(* that are not functions, and then returns a value, returns a promise     *)
(* that resolves with a value, throws, or returns a promise that rejects.  *)
(* regs and result record what the script did; the code reads neither.    *)
(***************************************************************************)
Fn(n) == [h |-> n, kind |-> "ok"]
NotCallable == {NoCleanup, [h |-> 0, kind |-> "string"]}
Callbacks == {Fn(1), Fn(2)} \cup NotCallable
Results == {Fn(1), Fn(3)} \cup NotCallable

NotStarted ==
    [pc |-> "idle", blank |-> FALSE, cleanup |-> NoCleanup, regs |-> <<>>,
     how |-> "-", result |-> NoCleanup, out |-> NoCleanup]

\* executeJs is called: lines 113-132.
ExecStart(blank) ==
    /\ exec.pc = "idle"
    /\ exec' = [exec EXCEPT !.blank = blank,
                            !.pc = IF blank THEN "resolved" ELSE "running"]
    /\ UNCHANGED <<jobVars, previewVars, extVars, clientVars, requestVars, aiVars>>

\* The script calls context.registerCleanup(cb).
ExecRegister(cb) ==
    /\ exec.pc = "running"
    /\ Len(exec.regs) < MaxRegs
    /\ exec' = [exec EXCEPT !.cleanup = registerCleanup(@, cb),
                            !.regs = Append(@, cb)]
    /\ UNCHANGED <<jobVars, previewVars, extVars, clientVars, requestVars, aiVars>>

\* The script ends with value v, returned ("return") or as the resolved
\* value of the promise it returned ("resolve"); executeJs resolves.
ExecReturn(how, v) ==
    /\ exec.pc = "running"
    /\ exec' = [exec EXCEPT !.pc = "resolved", !.how = how, !.result = v,
                            !.cleanup = afterRunner(@, v),
                            !.out = afterRunner(exec.cleanup, v)]
    /\ UNCHANGED <<jobVars, previewVars, extVars, clientVars, requestVars, aiVars>>

\* The script throws or its promise rejects: lines 140-146.
ExecThrow(how) ==
    /\ exec.pc = "running"
    /\ exec' = [exec EXCEPT !.pc = "rejected", !.how = how]
    /\ UNCHANGED <<jobVars, previewVars, extVars, clientVars, requestVars, aiVars>>

(***************************************************************************)
(* removePreviewScript(id) on p = [previews, doc, runs, warn]: the cleanup  *)
(* call is inside try/catch, so the stylesheet and the entry go in every   *)
(* case.  threw says whether the call ends by throwing.                    *)
(***************************************************************************)
removePreviewScriptWipe(p, id) ==
    IF ~MapHas(p.previews, id)
    THEN [previews |-> EmptyMap, doc |-> <<>>, runs |-> p.runs,
          warn |-> p.warn, threw |-> FALSE]
    ELSE LET e == p.previews[id]
         IN [previews |-> MapDelete(p.previews, id),
             doc |-> RemoveEl(p.doc, e.styleEl),
             runs |-> InvokeCleanup(p.runs, e.cleanup),
             warn |-> IF e.cleanup.kind \in {"throws", "rejects"}
                      THEN LogWarn(p.warn, e.cleanup) ELSE p.warn,
             threw |-> FALSE]

removePreviewScriptNoCatch(p, id) ==
    IF ~MapHas(p.previews, id)
    THEN [previews |-> p.previews, doc |-> p.doc, runs |-> p.runs,
          warn |-> p.warn, threw |-> FALSE]
    ELSE LET e == p.previews[id]
         IN IF e.cleanup.kind = "throws"
            THEN [previews |-> p.previews, doc |-> p.doc,
                  runs |-> InvokeCleanup(p.runs, e.cleanup),
                  warn |-> p.warn, threw |-> TRUE]
            ELSE [previews |-> MapDelete(p.previews, id),
                  doc |-> RemoveEl(p.doc, e.styleEl),
                  runs |-> InvokeCleanup(p.runs, e.cleanup),
                  warn |-> IF e.cleanup.kind = "rejects"
                           THEN LogWarn(p.warn, e.cleanup) ELSE p.warn,
                  threw |-> FALSE]

removePreviewScript(p, id) ==
    IF ~MapHas(p.previews, id)
    THEN [previews |-> p.previews, doc |-> p.doc, runs |-> p.runs,
          warn |-> p.warn, threw |-> FALSE]
    ELSE LET e == p.previews[id]
         IN [previews |-> MapDelete(p.previews, id),
             doc |-> RemoveEl(p.doc, e.styleEl),
             runs |-> InvokeCleanup(p.runs, e.cleanup),
             warn |-> IF e.cleanup.kind \in {"throws", "rejects"}
                      THEN LogWarn(p.warn, e.cleanup) ELSE p.warn,
             threw |-> FALSE]

\* clearPreviewScripts(): removePreviewScript for a snapshot of the keys.
RECURSIVE removeEach(_, _)
removeEach(p, ids) ==
    IF ids = {} THEN p
    ELSE LET id == CHOOSE x \in ids : TRUE
         IN removeEach(removePreviewScript(p, id), ids \ {id})

clearFirstOnly(p) ==
    IF DOMAIN p.previews = {} THEN p
    ELSE removePreviewScript(p, CHOOSE id \in DOMAIN p.previews : TRUE)

clearPreviewScripts(p) == removeEach(p, DOMAIN p.previews)

Page == [previews |-> previews, doc |-> doc, runs |-> runs, warn |-> warn]

InFlight(c) == call[c].pc \in {"exec", "ran"}

\* The record of a call that has settled: only how it ended, and the error
\* it rejected with.
Ended(pc, err) ==
    [pc |-> pc, err |-> err, id |-> "-", css |-> FALSE, js |-> "-", hk |-> "-",
     styleEl |-> 0, replaced |-> 0, oldCleanup |-> 0]

(***************************************************************************)
(* applyPreviewScript(script) up to the await of executeJs: teardown of    *)
(* the existing entry, attachStyle, and executeJs up to its first          *)
(* suspension.  replaced and oldCleanup record the entry found (its owner  *)
(* is the call that registered it); the code does not read them.           *)
(***************************************************************************)
ApplyStart(id, css, js, hk) ==
    /\ Len(call) < MaxCalls
    /\ hk \in (IF js \in {"register", "return"} THEN CleanupKinds ELSE {"none"})
    /\ LET c == Len(call) + 1
           t == teardown(Page, id)
           a == attachStyle(t.doc, id, css, c)
           r == [pc |-> "exec", err |-> "-", id |-> id, css |-> css, js |-> js,
                 hk |-> hk,
                 styleEl |-> a.el,
                 replaced |-> IF MapHas(previews, id) THEN previews[id].owner ELSE 0,
                 oldCleanup |-> IF MapHas(previews, id) THEN previews[id].cleanup.h ELSE 0]
       IN /\ previews' = t.previews
          /\ runs' = Append(t.runs, 0)
          /\ warn' = Append(t.warn, FALSE)
          /\ doc' = IF t.threw THEN t.doc ELSE a.doc
          /\ call' = Append(call, IF t.threw THEN Ended("failed", CleanupError)
                                   ELSE r)
          /\ UNCHANGED <<revoked, stored>>
          /\ UNCHANGED <<jobVars, extVars, execVars, requestVars, aiVars, clientVars>>

\* executeJs resumes and the script runs.
ApplyExec(c) ==
    /\ c \in DOMAIN call
    /\ call[c].pc = "exec"
    /\ call' = [call EXCEPT ![c].pc = "ran"]
    /\ UNCHANGED <<previews, doc, runs, warn, revoked, stored>>
    /\ UNCHANGED <<jobVars, extVars, execVars, requestVars, aiVars, clientVars>>

\* applyPreviewScript resumes after the await: lines 171-176, or the catch.
ApplyFinish(c) ==
    /\ c \in DOMAIN call
    /\ call[c].pc = "ran"
    /\ LET r == executeJs(c, call[c].js, call[c].hk)
       IN IF r.threw
          THEN /\ doc' = RemoveFirstTagged(doc, call[c].id)
               /\ call' = [call EXCEPT ![c] = Ended("failed", r.error)]
               /\ UNCHANGED <<previews, runs, warn, revoked, stored>>
               /\ UNCHANGED <<jobVars, extVars, execVars, requestVars, aiVars, clientVars>>
          ELSE /\ previews' = MapSet(previews, call[c].id,
                                     [cleanup |-> r.cleanup,
                                      styleEl |-> call[c].styleEl, owner |-> c,
                                      replaced |-> call[c].replaced,
                                      oldCleanup |-> call[c].oldCleanup])
               /\ call' = [call EXCEPT ![c] = Ended("done", "-")]
               /\ stored' = stored \cup ({r.cleanup.h} \ {0})
               /\ UNCHANGED <<doc, runs, warn, revoked>>
               /\ UNCHANGED <<jobVars, extVars, execVars, requestVars, aiVars, clientVars>>

\* The applyPreviewScript calls for one of ids that are suspended.
Suspended(ids) ==
    {<<c, call[c].id>> : c \in {x \in DOMAIN call : InFlight(x) /\ call[x].id \in ids}}

Remove(id) ==
    LET p == removePreviewScript(Page, id)
    IN /\ previews' = p.previews /\ doc' = p.doc /\ runs' = p.runs
       /\ warn' = p.warn
       /\ revoked' = revoked \cup Suspended({id})
       /\ UNCHANGED <<call, stored>>
       /\ UNCHANGED <<jobVars, extVars, execVars, requestVars, aiVars, clientVars>>

Clear ==
    LET p == clearPreviewScripts(Page)
    IN /\ previews' = p.previews /\ doc' = p.doc /\ runs' = p.runs
       /\ warn' = p.warn
       /\ revoked' = revoked \cup Suspended(Ids)
       /\ UNCHANGED <<call, stored>>
       /\ UNCHANGED <<jobVars, extVars, execVars, requestVars, aiVars, clientVars>>

(***************************************************************************)
(* The model transport: generateScript of createModelClient               *)
(* (src/unnamed/part_001).  Thrown values are records; status 0 and        *)
(* details "-" stand for undefined.                                        *)
(***************************************************************************)
NoError ==
    [class |-> "none", name |-> "-", message |-> "-", status |-> 0, details |-> "-"]

\* new ModelClientError(message, status, details)
ModelClientError(message, status, details) ==
    [class |-> "ModelClientError", name |-> "ModelClientError",
     message |-> message, status |-> status, details |-> details]

\* What fetch and response.text() reject with when the signal aborts.
AbortError ==
    [class |-> "DOMException", name |-> "AbortError",
     message |-> "The operation was aborted.", status |-> 0, details |-> "-"]

\* Other values the HTTP call may throw or reject with: an Error with a
\* message, an object without a message, and undefined.
NetworkError ==
    [class |-> "TypeError", name |-> "TypeError",
     message |-> "Failed to fetch", status |-> 0, details |-> "-"]
BareObject ==
    [class |-> "Object", name |-> "undefined",
     message |-> "undefined", status |-> 0, details |-> "-"]
Undefined ==
    [class |-> "undefined", name |-> "-", message |-> "-", status |-> 0,
     details |-> "-"]
HttpFailures == {NetworkError, BareObject, Undefined}

\* Evaluating (error as Error).name on undefined.
NameOfUndefined ==
    [class |-> "TypeError", name |-> "TypeError",
     message |-> "Cannot read properties of undefined (reading 'name')",
     status |-> 0, details |-> "-"]

TimedOut == ModelClientError("Model request timed out.", 0, "timeoutMs")

\* The catch of generateScript, lines 294-304: what it throws for error.
wrapEverything(error) ==
    IF error.name = "AbortError" THEN TimedOut
    ELSE ModelClientError(error.message, 0, "error")

rethrow(error) ==
    IF error.class = "ModelClientError" THEN error
    ELSE IF error.class = "undefined" THEN NameOfUndefined
    ELSE IF error.name = "AbortError" THEN TimedOut
    ELSE ModelClientError(IF error.message = "undefined"
                          THEN "Unknown model client error." ELSE error.message,
                          0, "error")

(***************************************************************************)
(* Response bodies.  text is the raw body; parses says JSON.parse(text)    *)
(* succeeds; msgType and msg are the type and value of json.error.message  *)
(* ("undefined" when the path does not exist); content says whether        *)
(* extractMessageContent finds completion text in choices[0].              *)
(***************************************************************************)
Body(text, parses, msgType, msg, content) ==
    [text |-> text, parses |-> parses, msgType |-> msgType, msg |-> msg,
     content |-> content]

Bodies ==
    { Body("", FALSE, "undefined", "-", FALSE),
      Body("Bad gateway", FALSE, "undefined", "-", FALSE),
      Body("{error:{message:'Rate limit exceeded'}}", TRUE, "string",
           "Rate limit exceeded", FALSE),
      Body("{error:{message:''}}", TRUE, "string", "", FALSE),
      Body("{error:{message:42}}", TRUE, "number", "42", FALSE),
      Body("{choices:[]}", TRUE, "undefined", "-", FALSE),
      Body("{choices:[{message:{content:'{}'}}]}", TRUE, "undefined", "-", TRUE) }

Statuses == {200, 429, 500}

\* response.ok
Ok(status) == status \in 200..299

\* readResponseBody, lines 199-206: json is absent when the parse fails.
readResponseBody(body) ==
    [text |-> body.text, json |-> body.parses]

\* Lines 273-276: the message of the error for a response that is not ok.
messageTextFirst(body, status) ==
    LET r == readResponseBody(body)
    IN IF r.text # "" THEN r.text
       ELSE IF r.json /\ body.msgType = "string" THEN body.msg
       ELSE "Request failed with status " \o ToString(status)

failureMessage(body, status) ==
    LET r == readResponseBody(body)
    IN IF r.json /\ body.msgType = "string" THEN body.msg
       ELSE IF r.text # "" THEN r.text
       ELSE "Request failed with status " \o ToString(status)

\* Lines 270-293 once the body text is there: what is thrown, or NoError
\* when generateScript returns a result.
handleResponse(status, body) ==
    LET r == readResponseBody(body)
    IN IF ~Ok(status)
       THEN ModelClientError(failureMessage(body, status), status,
                             IF r.json THEN "json" ELSE "text")
       ELSE IF ~(r.json /\ body.content)
       THEN ModelClientError("Model response did not include completion text.",
                             status, IF r.json THEN "json" ELSE "undefined")
       ELSE NoError

(***************************************************************************)
(* One generateScript call.  http.state follows the deps.fetch call:       *)
(* "pending" until the response arrives, "reading" while response.text()   *)
(* is pending, "aborted" once the call has seen the abort of               *)
(* controller.signal, then "failed" or "done".  http.observed counts the   *)
(* aborts the call has seen.  A response or a failure of the HTTP call is  *)
(* taken together with the continuation of generateScript that it wakes;   *)
(* an abort and the continuation it wakes are two steps, so that the       *)
(* other trigger may fire in between.                                      *)
(***************************************************************************)
NoCall ==
    [calls |-> 0, state |-> "none", observed |-> 0, status |-> 0,
     body |-> Body("", FALSE, "undefined", "-", FALSE)]

InFlightRequest == gen.pc \in {"fetching", "reading"}

\* controller.abort() called by trigger: the signal fires its abort event
\* only the first time, and the HTTP call sees it while it is under way.
abortEveryTime(ctl, h) ==
    IF h.state \in {"pending", "reading", "aborted"}
    THEN [h EXCEPT !.state = "aborted", !.observed = @ + 1] ELSE h

abort(ctl, h) ==
    IF ~ctl.aborted /\ h.state \in {"pending", "reading"}
    THEN [h EXCEPT !.state = "aborted", !.observed = @ + 1] ELSE h

\* The finally block, lines 304-311.
keepTimer(t) == t

clearTimeout(t) == IF t = "armed" THEN "cleared" ELSE t

removeEventListener(sig) == [sig EXCEPT !.listener = FALSE]

\* generateScript settles: caught is what the try block threw (NoError: it
\* returned a result), gen.error what generateScript rejects with.
Finish(caught) ==
    /\ gen' = IF caught = NoError
              THEN [pc |-> "resolved", caught |-> NoError, error |-> NoError]
              ELSE [pc |-> "rejected", caught |-> caught, error |-> rethrow(caught)]
    /\ abortTimer' = clearTimeout(abortTimer)
    /\ abortSignal' = IF abortSignal.given THEN removeEventListener(abortSignal)
                      ELSE abortSignal

\* generateScript(params) up to the await of deps.fetch, lines 225-268.
\* token: params.abortSignal is "absent", "live" or already "aborted";
\* timeout: timeoutMs > 0.
StartRequest(token, timeout) ==
    /\ gen.pc = "idle"
    /\ gen' = [gen EXCEPT !.pc = "fetching"]
    /\ abortSignal' = [given |-> token # "absent", aborted |-> token = "aborted",
                       listener |-> token = "live"]
    /\ controller' = IF token = "aborted"
                     THEN [aborted |-> TRUE, triggers |-> {"token"}]
                     ELSE controller
    /\ abortTimer' = IF timeout THEN "armed" ELSE "none"
    /\ http' = IF token = "aborted"
               THEN [http EXCEPT !.calls = @ + 1, !.state = "aborted",
                                 !.observed = @ + 1]
               ELSE [http EXCEPT !.calls = @ + 1, !.state = "pending"]

GenerateScript(token, timeout) ==
    /\ StartRequest(token, timeout)
    /\ UNCHANGED <<jobVars, previewVars, extVars, execVars, requestVars, aiVars>>

\* The caller aborts its token; handleAbortProxy runs if still registered
\* (it was added with once: true).
SignalToken ==
    /\ abortSignal.given
    /\ ~abortSignal.aborted
    /\ abortSignal' = [abortSignal EXCEPT !.aborted = TRUE, !.listener = FALSE]
    /\ IF abortSignal.listener
       THEN /\ controller' = [aborted |-> TRUE,
                              triggers |-> controller.triggers \cup {"token"}]
            /\ http' = abort(controller, http)
       ELSE UNCHANGED <<controller, http>>

ExternalAbort ==
    /\ SignalToken
    /\ UNCHANGED <<gen, abortTimer, jobVars, previewVars, extVars, execVars, requestVars,
                   aiVars>>

\* The timeout timer fires: line 235.
TimerFires ==
    /\ abortTimer = "armed"
    /\ abortTimer' = "fired"
    /\ controller' = [aborted |-> TRUE,
                      triggers |-> controller.triggers \cup {"timer"}]
    /\ http' = abort(controller, http)
    /\ UNCHANGED <<gen, abortSignal, jobVars, previewVars, extVars, execVars, requestVars, aiVars>>

\* The response arrives; generateScript goes on to readResponseBody.
HttpResponds(status, body) ==
    /\ http.state = "pending"
    /\ http' = [http EXCEPT !.state = "reading", !.status = status, !.body = body]
    /\ gen' = [gen EXCEPT !.pc = "reading"]
    /\ UNCHANGED <<controller, abortSignal, abortTimer, jobVars, previewVars, extVars, execVars, requestVars, aiVars>>

\* deps.fetch or response.text() rejects with error for a reason other than
\* the abort; generateScript goes through catch and finally.
HttpFails(error) ==
    /\ http.state \in {"pending", "reading"}
    /\ http' = [http EXCEPT !.state = "failed"]
    /\ Finish(error)
    /\ UNCHANGED <<controller, jobVars, previewVars, extVars, execVars, requestVars, aiVars>>

\* The aborted HTTP call rejects with an AbortError; catch and finally.
AbortSurfaces ==
    /\ http.state = "aborted"
    /\ InFlightRequest
    /\ http' = [http EXCEPT !.state = "failed"]
    /\ Finish(AbortError)
    /\ UNCHANGED <<controller, jobVars, previewVars, extVars, execVars, requestVars, aiVars>>

\* The body text is there: lines 270-293, then finally.
BodyRead ==
    /\ http.state = "reading"
    /\ http' = [http EXCEPT !.state = "done"]
    /\ Finish(handleResponse(http.status, http.body))
    /\ UNCHANGED <<controller, jobVars, previewVars, extVars, execVars, requestVars, aiVars>>

(***************************************************************************)
(* parseScriptPayload (src/unnamed/part_001, lines 171-197).  A JavaScript *)
(* value is a record: its type, for a string its text and whether          *)
(* trim() leaves nothing of it.  The extracted content is a string with    *)
(* what JSON.parse makes of it: json is "invalid" when the parse throws,   *)
(* "null", "primitive" (a number, a string, an array: a value without the  *)
(* fields read here) or "object", whose fields are given.                  *)
(***************************************************************************)
Undef == [type |-> "undefined", text |-> "", blank |-> TRUE]
Null == [type |-> "null", text |-> "", blank |-> TRUE]
Number == [type |-> "number", text |-> "42", blank |-> FALSE]
Text(t) == [type |-> "string", text |-> t, blank |-> FALSE]
Blank(t) == [type |-> "string", text |-> t, blank |-> TRUE]

\* a ?? b
Coalesce(a, b) == IF a.type \in {"undefined", "null"} THEN b ELSE a

NoFields ==
    [jsCode |-> Undef, js_code |-> Undef, cssCode |-> Undef, css_code |-> Undef,
     urlMatchPattern |-> Undef, url_match_pattern |-> Undef]

Objects ==
    [jsCode : {Undef, Null, Number, Text("js"), Blank("")},
     js_code : {Undef, Number, Text("js2")},
     cssCode : {Undef, Number, Text("css"), Blank("  ")},
     css_code : {Undef, Text("css2")},
     urlMatchPattern : {Undef, Text("url"), Blank(" ")},
     url_match_pattern : {Undef, Text("url2")}]

Content(text, blank, json, fields) ==
    [text |-> text, blank |-> blank, json |-> json, fields |-> fields]

Contents ==
    { Content("", TRUE, "invalid", NoFields),
      Content("   ", TRUE, "invalid", NoFields),
      Content("console.log(1);", FALSE, "invalid", NoFields),
      Content("null", FALSE, "null", NoFields),
      Content("42", FALSE, "primitive", NoFields) }
    \cup { Content("{...}", FALSE, "object", o) : o \in Objects }

NoContent == Content("", TRUE, "invalid", NoFields)
NoPayload == [jsCode |-> Undef, cssCode |-> Undef, urlMatchPattern |-> Undef]

\* { jsCode: content }
Verbatim(content) ==
    [jsCode |-> [type |-> "string", text |-> content.text, blank |-> content.blank],
     cssCode |-> Undef, urlMatchPattern |-> Undef]

\* typeof v === 'string' && v.trim()
NonBlankString(v) == v.type = "string" /\ ~v.blank

parseScriptPayload(content) ==
    IF content.blank
    THEN [jsCode |-> Blank(""), cssCode |-> Undef, urlMatchPattern |-> Undef]
    ELSE IF content.json \in {"invalid", "null"}
    THEN Verbatim(content)
    ELSE LET f == content.fields
             jsCode == Coalesce(Coalesce(f.jsCode, f.js_code), Blank(""))
             cssCode == Coalesce(f.cssCode, f.css_code)
             urlMatchPattern == Coalesce(f.urlMatchPattern, f.url_match_pattern)
         IN IF jsCode.type = "string"
            THEN [jsCode |-> jsCode,
                  cssCode |-> IF NonBlankString(cssCode) THEN cssCode ELSE Undef,
                  urlMatchPattern |-> IF NonBlankString(urlMatchPattern)
                                      THEN urlMatchPattern ELSE Undef]
            ELSE Verbatim(content)

ParseScriptPayload(content) ==
    /\ parsed' = [pc |-> "returned", content |-> content,
                  payload |-> parseScriptPayload(content)]
    /\ UNCHANGED <<jobVars, previewVars, extVars, execVars, clientVars,
                   validated, built, hist, aiVars>>

\* ---------------------------------------------------------------------
\* Script validator (validateGeneratedScript).
\*
\* A string is kept as the lengths of its leading whitespace, of the part
\* between the first and the last non-whitespace character, and of its
\* trailing whitespace, with the disallowed patterns that occur in it.

MAX_JS_LENGTH == 8000
MAX_CSS_LENGTH == 4000

Patterns == <<"fetch", "XMLHttpRequest", "chrome">>

PatternMessage ==
    [fetch |-> "Uses fetch(); ensure network access is necessary.",
     XMLHttpRequest |-> "Uses XMLHttpRequest; consider avoiding external calls.",
     chrome |-> "Touches chrome.* APIs; ensure permissions allow this."]

NoJavaScript == "Generated response did not include JavaScript to execute."
JsTooLong == "JavaScript exceeds 8000 characters; consider simplifying."
CssTooLong == "CSS exceeds 4000 characters; consider simplifying."

Str(lead, core, trail, tags) ==
    [type |-> "string", lead |-> lead, core |-> core, trail |-> trail,
     tags |-> tags]
Missing == [type |-> "undefined", lead |-> 0, core |-> 0, trail |-> 0, tags |-> {}]
NotAString == [type |-> "number", lead |-> 0, core |-> 0, trail |-> 0, tags |-> {}]
EmptyString == Str(0, 0, 0, {})

IsString(v) == v.type = "string"
length(v) == v.lead + v.core + v.trail
trimStart(v) == [v EXCEPT !.lead = 0]
trim(v) == [v EXCEPT !.lead = 0, !.trail = 0]
\* !value for a string or undefined.
Falsy(v) == ~IsString(v) \/ length(v) = 0

RECURSIVE matches(_, _)
matches(code, i) ==
    IF i > Len(Patterns) THEN <<>>
    ELSE (IF Patterns[i] \in code.tags THEN <<PatternMessage[Patterns[i]]>> ELSE <<>>)
         \o matches(code, i + 1)

firstPatternOnly(code) ==
    IF code.tags = {} THEN <<>> ELSE <<PatternMessage[Patterns[1]]>>

containsDisallowedPatterns(code) == matches(code, 1)

NoScript ==
    [present |-> FALSE, jsCode |-> Missing, cssCode |-> Missing,
     urlMatchPattern |-> Missing]

scriptAlways(errors, script) == script

\* errors.length === 0 ? { jsCode, cssCode, urlMatchPattern } : undefined
scriptUnless(errors, script) == IF Len(errors) = 0 THEN script ELSE NoScript

untrimmedJs(payload) ==
    IF IsString(payload.jsCode) THEN payload.jsCode ELSE EmptyString

trimmedJs(payload) ==
    IF IsString(payload.jsCode) THEN trim(payload.jsCode) ELSE EmptyString

validateGeneratedScript(payload) ==
    LET jsCode == trimmedJs(payload)
        cssCode == IF IsString(payload.cssCode)
                   THEN trim(payload.cssCode) ELSE Missing
        urlMatchPattern == IF IsString(payload.urlMatchPattern)
                           THEN trim(payload.urlMatchPattern) ELSE Missing
        errors == IF Falsy(jsCode) THEN <<NoJavaScript>> ELSE <<>>
        jsWarnings ==
            IF Falsy(jsCode) THEN <<>>
            ELSE (IF length(jsCode) > MAX_JS_LENGTH THEN <<JsTooLong>> ELSE <<>>)
                 \o containsDisallowedPatterns(jsCode)
        cssWarnings ==
            IF ~Falsy(cssCode) /\ length(cssCode) > MAX_CSS_LENGTH
            THEN <<CssTooLong>> ELSE <<>>
    IN [ok |-> Len(errors) = 0,
        script |-> scriptUnless(errors,
                       [present |-> TRUE, jsCode |-> jsCode, cssCode |-> cssCode,
                        urlMatchPattern |-> urlMatchPattern]),
        errors |-> errors,
        warnings |-> jsWarnings \o cssWarnings]

\* Payloads: jsCode and cssCode absent, of another type, empty, blank,
\* padded with whitespace, and at and above their limits.
Paddings == {<<0, 0>>, <<2, 1>>}

JsCodes ==
    {Missing, NotAString, EmptyString, Str(2, 0, 0, {})}
    \cup { Str(pad[1], core, pad[2], tags) :
             pad \in Paddings,
             core \in {40, MAX_JS_LENGTH, MAX_JS_LENGTH + 1},
             tags \in SUBSET {Patterns[i] : i \in 1..Len(Patterns)} }

CssCodes ==
    {Missing, NotAString, Str(1, 0, 0, {}), Str(0, 10, 0, {}),
     Str(0, MAX_CSS_LENGTH, 0, {}), Str(1, MAX_CSS_LENGTH, 1, {}),
     Str(0, MAX_CSS_LENGTH + 1, 0, {})}

UrlPatterns == {Missing, NotAString, Str(1, 5, 1, {}), Str(1, 0, 0, {})}

Payloads == [jsCode : JsCodes, cssCode : CssCodes, urlMatchPattern : UrlPatterns]

NoValidation ==
    [pc |-> "idle",
     payload |-> [jsCode |-> Missing, cssCode |-> Missing, urlMatchPattern |-> Missing],
     result |-> [ok |-> FALSE, script |-> NoScript, errors |-> <<>>, warnings |-> <<>>]]

ValidateGeneratedScript(payload) ==
    /\ validated' = [pc |-> "returned", payload |-> payload,
                     result |-> validateGeneratedScript(payload)]
    /\ UNCHANGED <<jobVars, previewVars, extVars, execVars, clientVars,
                   parsed, built, hist, aiVars>>

\* ---------------------------------------------------------------------
\* Prompt builder (buildGenerationParams).

DEFAULT_DOM_SNIPPET_LIMIT == 4000
\* Length of the appended "\n<!-- truncated -->".
TruncationMarkerLength == 19
\* .slice(-8)
HistoryLimit == 8

Marker == "truncated"

\* `${value.slice(0, limit)}\n<!-- truncated -->` beyond the limit, the
\* value itself within it.
truncate(value) ==
    IF Falsy(value) \/ length(value) <= DEFAULT_DOM_SNIPPET_LIMIT THEN value
    ELSE Str(0, DEFAULT_DOM_SNIPPET_LIMIT + TruncationMarkerLength, 0, {Marker})

NoPage == [present |-> FALSE, url |-> "", title |-> "", surroundingHtml |-> Missing]

PageSnapshot(url, title, surroundingHtml) ==
    [present |-> TRUE, url |-> url, title |-> title,
     surroundingHtml |-> surroundingHtml]

truncateUntrimmed(page) ==
    IF ~Falsy(page.surroundingHtml) /\ ~Falsy(trim(page.surroundingHtml))
    THEN truncate(page.surroundingHtml) ELSE Missing

snippet(page) ==
    IF ~Falsy(page.surroundingHtml) /\ ~Falsy(trim(page.surroundingHtml))
    THEN truncate(trim(page.surroundingHtml)) ELSE Missing

normalisePageContext(page) ==
    IF ~page.present THEN NoPage
    ELSE PageSnapshot(page.url, page.title, snippet(page))

Roles == {"user", "assistant", "system"}

Message(role, content) == [role |-> role, content |-> content]

Conversant(message) == message.role = "assistant" \/ message.role = "user"

firstEntries(s, n) == SubSeq(s, 1, IF Len(s) < n THEN Len(s) ELSE n)

\* s.slice(-n)
lastEntries(s, n) == SubSeq(s, IF Len(s) > n THEN Len(s) - n + 1 ELSE 1, Len(s))

\* "Assistant: <content>" or "User: <content>".
Rendered(message) ==
    [role |-> IF message.role = "assistant" THEN "Assistant" ELSE "User",
     content |-> message.content]

NoConversation == [present |-> FALSE, messages |-> <<>>]
Conversation(messages) == [present |-> TRUE, messages |-> messages]

NoHistoryList == [defined |-> FALSE, entries |-> <<>>]

normaliseHistory(conversation) ==
    IF ~conversation.present \/ Len(conversation.messages) = 0 THEN NoHistoryList
    ELSE LET kept == lastEntries(SelectSeq(conversation.messages, Conversant),
                                 HistoryLimit)
             history == [i \in 1..Len(kept) |-> Rendered(kept[i])]
         IN IF Len(history) > 0 THEN [defined |-> TRUE, entries |-> history]
            ELSE NoHistoryList

PromptRequired == "Prompt text is required to build generation payload."

NoParams ==
    [prompt |-> Missing, page |-> NoPage, history |-> NoHistoryList,
     responseFormat |-> "", temperature |-> ""]

promptUntrimmed(input) == input.userPrompt

promptOf(input) == trim(input.userPrompt)

\* The returned parameters, or the thrown Error.
buildGenerationParams(input) ==
    IF Falsy(input.userPrompt) \/ Falsy(trim(input.userPrompt))
    THEN [threw |-> TRUE, error |-> PromptRequired, params |-> NoParams]
    ELSE [threw |-> FALSE, error |-> "",
          params |-> [prompt |-> promptOf(input),
                      page |-> normalisePageContext(input.page),
                      history |-> normaliseHistory(input.conversation),
                      responseFormat |-> IF input.responseFormat = "absent"
                                         THEN "json" ELSE input.responseFormat,
                      temperature |-> IF input.temperature = "absent"
                                      THEN "0.2" ELSE input.temperature]]

UserPrompts ==
    {Missing, EmptyString, Str(2, 0, 0, {}), Str(0, 12, 0, {}), Str(1, 12, 2, {})}

SurroundingHtmls ==
    {Missing, EmptyString, Str(1, 0, 0, {}), Str(0, 100, 0, {}), Str(2, 100, 1, {}),
     Str(0, DEFAULT_DOM_SNIPPET_LIMIT, 0, {}),
     Str(1, DEFAULT_DOM_SNIPPET_LIMIT, 0, {}),
     Str(0, DEFAULT_DOM_SNIPPET_LIMIT + 1, 0, {}),
     Str(2, DEFAULT_DOM_SNIPPET_LIMIT + 500, 1, {})}

Pages ==
    {NoPage} \cup { PageSnapshot("https://example.com", "Example", html) :
                      html \in SurroundingHtmls }

ShortConversations ==
    {NoConversation, Conversation(<<>>),
     Conversation(<<Message("system", 1)>>),
     Conversation(<<Message("user", 1), Message("system", 2),
                    Message("assistant", 3)>>)}

Inputs ==
    [userPrompt : UserPrompts, page : Pages, conversation : ShortConversations,
     responseFormat : {"absent", "text"}, temperature : {"absent", "0.7"}]

NoBuild ==
    [pc |-> "idle",
     input |-> [userPrompt |-> Missing, page |-> NoPage,
                conversation |-> NoConversation, responseFormat |-> "absent",
                temperature |-> "absent"],
     result |-> [threw |-> FALSE, error |-> "", params |-> NoParams]]

BuildGenerationParams(input) ==
    /\ built' = [pc |-> "returned", input |-> input,
                 result |-> buildGenerationParams(input)]
    /\ UNCHANGED <<jobVars, previewVars, extVars, execVars, clientVars,
                   parsed, validated, hist, aiVars>>

\* The chat log of a panel grows by one message at a time; a generation
\* request hands the log as it then stands to normaliseHistory.  Messages
\* carry their position in the log as content.
MaxTurns == 9

NoHistory == [log |-> <<>>, pc |-> "idle", seen |-> 0, history |-> NoHistoryList]

AddMessage(role) ==
    /\ Len(hist.log) < MaxTurns
    /\ hist' = [hist EXCEPT !.log = Append(@, Message(role, Len(@) + 1))]
    /\ UNCHANGED <<jobVars, previewVars, extVars, execVars, clientVars,
                   parsed, validated, built, aiVars>>

NormaliseHistory ==
    /\ hist' = [hist EXCEPT !.pc = "returned",
                            !.seen = Len(hist.log),
                            !.history = normaliseHistory(Conversation(hist.log))]
    /\ UNCHANGED <<jobVars, previewVars, extVars, execVars, clientVars,
                   parsed, validated, built, aiVars>>

(***************************************************************************)
(* handleAiGenerate (src/entrypoints/background.ts, lines 342-552) for one *)
(* request of a tab, with the generateScript call it makes.  The task      *)
(* handed to aiJobManager.run builds the parameters, calls generateScript  *)
(* with the job's signal as abortSignal and validates the script.  When    *)
(* generateScript settles, the rest of the task, the catch of              *)
(* JobManager.run and the reply of handleAiGenerate follow without another *)
(* message handler running in between, so they are one step and the token  *)
(* is signalled only while the HTTP call is under way.                     *)
(***************************************************************************)
\* new DOMException('Aborted', 'AbortError')
Aborted ==
    [class |-> "DOMException", name |-> "AbortError", message |-> "Aborted",
     status |-> 0, details |-> "-"]

\* new Error(message)
PlainError(message) ==
    [class |-> "Error", name |-> "Error", message |-> message, status |-> 0,
     details |-> "-"]

RequestCancelled == "Request cancelled."

catchWithoutCheck(error, aborted) == error

\* The catch block of the task, lines 447-476: what it throws.
taskCatch(error, aborted) == IF aborted THEN Aborted ELSE error

\* validation.errors.join(' ')
joinErrors(errors) == IF Len(errors) = 0 THEN "" ELSE errors[1]

\* The task once generateScript has settled with error (NoError: it
\* returned script): what the task throws, NoError when it returns.
taskAfterGenerate(error, script, aborted) ==
    IF error # NoError THEN taskCatch(error, aborted)
    ELSE LET validation == validateGeneratedScript(script)
         IN IF validation.ok THEN NoError
            ELSE taskCatch(PlainError(joinErrors(validation.errors)), aborted)

\* JobManager.run, lines 21-28: the status of the JobResult.
jobStatus(thrown) ==
    IF thrown = NoError THEN "success"
    ELSE IF thrown.name = "AbortError" THEN "cancelled"
    ELSE "error"

\* The RuntimeResponse of handleAiGenerate, lines 479-552.
respond(status, thrown) ==
    IF status = "success" THEN [ok |-> TRUE, error |-> ""]
    ELSE IF status = "cancelled" THEN [ok |-> FALSE, error |-> RequestCancelled]
    ELSE [ok |-> FALSE, error |-> thrown.message]

NoScriptYet == [jsCode |-> Missing, cssCode |-> Missing, urlMatchPattern |-> Missing]

\* Scripts a completion may carry: a clean one, one without JavaScript,
\* one that draws a warning.
GeneratedScripts ==
    { [jsCode |-> js, cssCode |-> Missing, urlMatchPattern |-> Missing] :
        js \in {Str(0, 40, 0, {}), Str(2, 0, 0, {}), EmptyString,
                Str(0, 40, 0, {"fetch"})} }

PromptInput(userPrompt) ==
    [userPrompt |-> userPrompt, page |-> NoPage, conversation |-> NoConversation,
     responseFormat |-> "absent", temperature |-> "absent"]

NoRequests ==
    [pc |-> "idle", cause |-> "none", script |-> NoScriptYet, thrown |-> NoError,
     status |-> "none", response |-> [ok |-> FALSE, error |-> ""]]

Responded(thrown) ==
    [ai EXCEPT !.pc = "responded", !.thrown = thrown,
               !.status = jobStatus(thrown),
               !.response = respond(jobStatus(thrown), thrown)]

\* AiGenerate arrives: aiJobManager.run starts the task, which runs up to
\* the await of the HTTP call, or throws out of buildGenerationParams.
HandleAiGenerate(userPrompt) ==
    /\ ai.pc = "idle"
    /\ LET build == buildGenerationParams(PromptInput(userPrompt))
       IN IF build.threw
          THEN /\ ai' = Responded(PlainError(build.error))
               /\ UNCHANGED clientVars
          ELSE /\ ai' = [ai EXCEPT !.pc = "generating"]
               /\ StartRequest("live", TRUE)
    /\ UNCHANGED <<jobVars, previewVars, extVars, execVars, requestVars>>

\* aiJobManager.cancel(jobKey) while the job is registered, called by
\* handleAiCancel or by run for a newer AiGenerate of the same tab: the
\* job's controller aborts.
CancelJob(cause) ==
    /\ ai.pc = "generating"
    /\ InFlightRequest
    /\ SignalToken
    /\ ai' = [ai EXCEPT !.cause = cause]
    /\ UNCHANGED <<gen, abortTimer, jobVars, previewVars, extVars, execVars, requestVars>>

\* generateScript has settled; script is what it returned when it resolved.
TaskSettles(script) ==
    /\ ai.pc = "generating"
    /\ gen.pc \in {"resolved", "rejected"}
    /\ (gen.pc = "rejected") => script = NoScriptYet
    /\ (gen.pc = "resolved") => script \in GeneratedScripts
    /\ ai' = [Responded(taskAfterGenerate(gen.error, script, abortSignal.aborted))
                 EXCEPT !.script = script]
    /\ UNCHANGED <<jobVars, previewVars, extVars, execVars, clientVars, requestVars>>

(***************************************************************************)
(* The temporary script store (src/unnamed/part_002, lines 1-124).  Each   *)
(* operation first awaits its IndexedDB request.  When that rejects,       *)
(* handleIndexedDbError runs the fallback on the list kept in              *)
(* browser.storage.local: storage.local.get is served (the operation now   *)
(* holds the list as it then was), and for a save or a remove the          *)
(* continuation applies the updater to that list and stores the outcome    *)
(* with storage.local.set.  A record is its id and its status.             *)
(***************************************************************************)
MaxOps == 3

TemporaryScript(id, status) == [id |-> id, status |-> status]

Operation(kind, id, status) ==
    [kind |-> kind, script |-> TemporaryScript(id, status), pc |-> "idb",
     via |-> "none", snapshot |-> <<>>, result |-> {}]

Operations ==
    { Operation("save", id, status) : id \in Ids, status \in {"pending", "applied"} }
    \cup { Operation(kind, id, "-") : kind \in {"remove", "get"}, id \in Ids }
    \cup { Operation("list", "-", "-") }

Updates == { op \in Operations : op.kind \in {"save", "remove"} }

Records(scripts) == { scripts[i] : i \in DOMAIN scripts }

\* store.put, store.delete, store.getAll and store.get.
writeToIndexedDb(db, script) == MapSet(db, script.id, script)
deleteFromIndexedDb(db, id) == IF MapHas(db, id) THEN MapDelete(db, id) ELSE db
readAllFromIndexedDb(db) == { db[id] : id \in DOMAIN db }
readFromIndexedDb(db, id) == IF MapHas(db, id) THEN {db[id]} ELSE {}

\* The updater of saveTemporaryScript, lines 93-101.
appendAlways(scripts, script) == Append(scripts, script)

upsert(scripts, script) ==
    IF \E i \in DOMAIN scripts : scripts[i].id = script.id
    THEN LET existingIndex == CHOOSE i \in DOMAIN scripts :
                 /\ scripts[i].id = script.id
                 /\ \A j \in 1..(i - 1) : scripts[j].id # script.id
         IN [scripts EXCEPT ![existingIndex] = script]
    ELSE Append(scripts, script)

\* The updater of removeTemporaryScript, line 111.
without(scripts, id) == SelectSeq(scripts, LAMBDA item : item.id # id)

\* What an operation resolves with when IndexedDB served it, and what it
\* leaves in the object store.
servedByIndexedDb(op, db) ==
    CASE op.kind = "list" -> readAllFromIndexedDb(db)
      [] op.kind = "get" -> readFromIndexedDb(db, op.script.id)
      [] OTHER -> {}

afterIndexedDb(op, db) ==
    CASE op.kind = "save" -> writeToIndexedDb(db, op.script)
      [] op.kind = "remove" -> deleteFromIndexedDb(db, op.script.id)
      [] OTHER -> db

\* The same for the fallback, from the list that storage.local.get gave.
servedByFallback(op, scripts) ==
    CASE op.kind = "list" -> Records(scripts)
      [] op.kind = "get" -> { r \in Records(scripts) : r.id = op.script.id }
      [] OTHER -> {}

notUpdated(op, scripts) == scripts

updated(op, scripts) ==
    CASE op.kind = "save" -> upsert(scripts, op.script)
      [] op.kind = "remove" -> without(scripts, op.script.id)
      [] OTHER -> scripts

Done(i) == ops[i].pc = "done"
NoneUnderWay == \A i \in DOMAIN ops : Done(i)

\* saveTemporaryScript, removeTemporaryScript, listTemporaryScripts or
\* getTemporaryScript is called: up to the await of the IndexedDB request.
Call(op) ==
    /\ Len(ops) < MaxOps
    /\ ops' = Append(ops, op)
    /\ UNCHANGED <<coreVars, idb, fallbackList, tempVars, routerVars, flightVars,
                   captureVars>>

\* The same when no other operation is under way.
CallInTurn(op) == NoneUnderWay /\ Call(op)

\* The IndexedDB request succeeds and the operation resolves.
IndexedDbServes(i) ==
    /\ ops[i].pc = "idb"
    /\ idb' = afterIndexedDb(ops[i], idb)
    /\ ops' = [ops EXCEPT ![i].pc = "done", ![i].via = "idb",
                          ![i].result = servedByIndexedDb(ops[i], idb)]
    /\ UNCHANGED <<coreVars, fallbackList, tempVars, routerVars, flightVars,
                   captureVars>>

\* The IndexedDB request rejects: the catch calls handleIndexedDbError,
\* whose fallback calls storage.local.get.
IndexedDbFails(i) ==
    /\ ops[i].pc = "idb"
    /\ ops' = [ops EXCEPT ![i].pc = "get", ![i].via = "fallback"]
    /\ UNCHANGED <<coreVars, idb, fallbackList, tempVars, routerVars, flightVars,
                   captureVars>>

\* storage.local.get is served.  A list or a get resolves with what it
\* read; a save or a remove goes on to its updater.
FallbackRead(i) ==
    /\ ops[i].pc = "get"
    /\ ops' = [ops EXCEPT ![i].snapshot = fallbackList,
                          ![i].result = servedByFallback(ops[i], fallbackList),
                          ![i].pc = IF ops[i].kind \in {"save", "remove"}
                                    THEN "set" ELSE "done"]
    /\ UNCHANGED <<coreVars, idb, fallbackList, tempVars, routerVars, flightVars,
                   captureVars>>

\* The updater runs on the list read and storage.local.set stores its
\* outcome; the operation resolves.
FallbackWrite(i) ==
    /\ ops[i].pc = "set"
    /\ fallbackList' = updated(ops[i], ops[i].snapshot)
    /\ ops' = [ops EXCEPT ![i].pc = "done"]
    /\ UNCHANGED <<coreVars, idb, tempVars, routerVars, flightVars, captureVars>>

(***************************************************************************)
(* handleTempScriptCreate (src/entrypoints/background.ts, lines 213-256)   *)
(* with the content script's handling of TempScriptExecute                 *)
(* (src/entrypoints/content.ts, lines 168-200).  applyTemporaryScript      *)
(* calls the async applyPreviewScript without awaiting it and answers      *)
(* { ok: true }; the preview settles on its own.                           *)
(***************************************************************************)
\* executeJs rejects when the script throws or returns a rejected promise.
previewFails(js) == js \in {"throw", "reject"}

\* saveTemporaryScript(script) with nothing else under way: the record goes
\* to IndexedDB, or to the fallback list when the IndexedDB write fails.
Persist(script, indexedDbFails) ==
    IF indexedDbFails
    THEN /\ fallbackList' = upsert(fallbackList, script)
         /\ UNCHANGED idb
    ELSE /\ idb' = writeToIndexedDb(idb, script)
         /\ UNCHANGED fallbackList

NoTempScript ==
    [pc |-> "idle", id |-> "-", js |-> "blank", status |-> "none",
     errorMessage |-> FALSE,
     saved |-> <<>>, preview |-> "none", response |-> "none"]

\* TempScriptCreate arrives: the record is built with status 'pending' and
\* saved, and TempScriptExecute is sent to the tab.
HandleTempScriptCreate(id, js, indexedDbFails) ==
    /\ temp.pc = "idle"
    /\ temp' = [temp EXCEPT !.pc = "forwarding", !.id = id, !.js = js,
                            !.status = "pending", !.saved = <<"pending">>]
    /\ Persist(TemporaryScript(id, "pending"), indexedDbFails)
    /\ UNCHANGED <<coreVars, ops, routerVars, flightVars, captureVars>>

\* browser.tabs.sendMessage rejects: forwardToTab throws, the catch marks
\* the record failed, saves it and answers ok: false.
ContentUnreachable(indexedDbFails) ==
    /\ temp.pc = "forwarding"
    /\ temp' = [temp EXCEPT !.pc = "replied", !.status = "failed",
                            !.errorMessage = TRUE,
                            !.saved = Append(@, "failed"),
                            !.response = "ok:false"]
    /\ Persist(TemporaryScript(temp.id, "failed"), indexedDbFails)
    /\ UNCHANGED <<coreVars, ops, routerVars, flightVars, captureVars>>

\* The content script gets TempScriptExecute: applyTemporaryScript starts
\* applyPreviewScript and returns { ok: true }.
ContentApplies ==
    /\ temp.pc = "forwarding"
    /\ temp' = [temp EXCEPT !.pc = "answered", !.preview = "running"]
    /\ UNCHANGED <<coreVars, storeVars, routerVars, flightVars, captureVars>>

\* The answer of the content script reaches handleTempScriptCreate:
\* response.ok, so the record is marked applied, saved and returned.
AnswerArrives(indexedDbFails) ==
    /\ temp.pc = "answered"
    /\ temp' = [temp EXCEPT !.pc = "replied", !.status = "applied",
                            !.saved = Append(@, "applied"),
                            !.response = "ok:true"]
    /\ Persist(TemporaryScript(temp.id, "applied"), indexedDbFails)
    /\ UNCHANGED <<coreVars, ops, routerVars, flightVars, captureVars>>

\* applyPreviewScript settles in the page.
PreviewSettles ==
    /\ temp.preview = "running"
    /\ temp' = [temp EXCEPT !.preview = IF previewFails(temp.js)
                                        THEN "failed" ELSE "applied"]
    /\ UNCHANGED <<coreVars, storeVars, routerVars, flightVars, captureVars>>

(***************************************************************************)
(* createMessageRouter (src/src/core/pagePilot.ts, lines 240-261).  A      *)
(* handler ends by returning or resolving with a value, or by throwing or  *)
(* rejecting with a failure: an Error with a message, or another value.    *)
(***************************************************************************)
MessageTypes == {"selector/capture-start", "temp-script/create", "ai/generate"}

HandlerFailures ==
    { [isError |-> TRUE, message |-> "boom", text |-> "Error: boom"],
      [isError |-> TRUE, message |-> "", text |-> "Error"],
      [isError |-> FALSE, message |-> "-", text |-> "oops"],
      [isError |-> FALSE, message |-> "-", text |-> "undefined"] }

NoFailure == [isError |-> FALSE, message |-> "-", text |-> "-"]

\* How a handler ends: at once (it returns or throws) or later (its
\* promise resolves or rejects).
HandlerKinds ==
    { [when |-> w, failure |-> f] :
        w \in {"sync", "async"}, f \in HandlerFailures \cup {NoFailure} }

Unhandled(type) == [ok |-> FALSE, error |-> "Unhandled message type", of |-> type,
                    payload |-> 0]

alwaysMessage(error) == error.text

\* error instanceof Error ? error.message : 'Unknown handler error'
handlerError(error) ==
    IF error.isError THEN error.message ELSE "Unknown handler error"

\* What the router resolves with once the handler has ended.
routerResponse(handler, payload) ==
    IF handler.failure = NoFailure
    THEN [ok |-> TRUE, error |-> "", of |-> "-", payload |-> payload]
    ELSE [ok |-> FALSE, error |-> handlerError(handler.failure), of |-> "-",
          payload |-> 0]

NotRouted ==
    [pc |-> "idle", type |-> "-", request |-> "-", payload |-> 0,
     handler |-> [when |-> "sync", failure |-> NoFailure], invoked |-> FALSE,
     response |-> [ok |-> FALSE, error |-> "", of |-> "-", payload |-> 0]]

\* The router made for type is called with a request; the handler returns
\* the request's payload when it succeeds.
Route(type, request, payload, handler) ==
    /\ routed.pc # "awaiting"
    /\ routed' =
          IF request # type
          THEN [NotRouted EXCEPT !.pc = "resolved", !.type = type,
                                 !.request = request, !.payload = payload,
                                 !.handler = handler,
                                 !.response = Unhandled(request)]
          ELSE [NotRouted EXCEPT !.pc = IF handler.when = "sync"
                                        THEN "resolved" ELSE "awaiting",
                                 !.type = type, !.request = request,
                                 !.payload = payload, !.handler = handler,
                                 !.invoked = TRUE,
                                 !.response = IF handler.when = "sync"
                                              THEN routerResponse(handler, payload)
                                              ELSE NotRouted.response]
    /\ UNCHANGED <<coreVars, storeVars, tempVars, flightVars, captureVars>>

\* The promise of the handler settles.
HandlerSettles ==
    /\ routed.pc = "awaiting"
    /\ routed' = [routed EXCEPT !.pc = "resolved",
                     !.response = routerResponse(routed.handler, routed.payload)]
    /\ UNCHANGED <<coreVars, storeVars, tempVars, flightVars, captureVars>>

Tabs == {1, 2}

(***************************************************************************)
(* Selector capture: the background's capturingTabs                        *)
(* (src/entrypoints/background.ts, lines 139-198) and isCapturing of the   *)
(* content script of each tab (src/entrypoints/content.ts, lines 93-166    *)
(* and 186-191).  A message on its way is a record of its type and tab; at *)
(* most one message of a type is on its way per tab.  "captured-reply" is  *)
(* the settling of the content script's sendMessage of SelectorCaptured.   *)
(***************************************************************************)
Msg(type, tab) == [type |-> type, tab |-> tab]

\* startCapture() and stopCapture() on the isCapturing flags.
startCapture(flags, tab) == [flags EXCEPT ![tab] = TRUE]
stopCapture(flags, tab) == [flags EXCEPT ![tab] = FALSE]

\* SelectorCaptureStart arrives at the background: the tab is added and
\* the message is forwarded to its content script.
SelectorCaptureStart(tab) ==
    /\ Msg("start", tab) \notin channel
    /\ capturingTabs' = capturingTabs \cup {tab}
    /\ channel' = channel \cup {Msg("start", tab)}
    /\ UNCHANGED <<isCapturing, coreVars, storeVars, tempVars, routerVars, flightVars>>

\* SelectorCaptureStop arrives at the background.
SelectorCaptureStop(tab) ==
    /\ Msg("stop", tab) \notin channel
    /\ capturingTabs' = capturingTabs \ {tab}
    /\ channel' = channel \cup {Msg("stop", tab)}
    /\ UNCHANGED <<isCapturing, coreVars, storeVars, tempVars, routerVars, flightVars>>

\* The content script gets the forwarded message: content.ts 186-191.
ContentReceives(m) ==
    /\ m \in channel
    /\ m.type \in {"start", "stop"}
    /\ isCapturing' = IF m.type = "start" THEN startCapture(isCapturing, m.tab)
                      ELSE stopCapture(isCapturing, m.tab)
    /\ channel' = channel \ {m}
    /\ UNCHANGED <<capturingTabs, coreVars, storeVars, tempVars, routerVars, flightVars>>

\* browser.tabs.sendMessage rejects (no content script in the tab): the
\* catch of handleSelectorCaptureStart takes the tab out again, that of
\* handleSelectorCaptureStop changes nothing.
ForwardFails(m) ==
    /\ m \in channel
    /\ m.type \in {"start", "stop"}
    /\ capturingTabs' = IF m.type = "start" THEN capturingTabs \ {m.tab}
                        ELSE capturingTabs
    /\ channel' = channel \ {m}
    /\ UNCHANGED <<isCapturing, coreVars, storeVars, tempVars, routerVars, flightVars>>

\* A click on an element while capturing: finalizeCapture sends
\* SelectorCaptured; stopCapture waits for the send to settle.
Click(tab) ==
    /\ isCapturing[tab]
    /\ Msg("captured", tab) \notin channel
    /\ Msg("captured-reply", tab) \notin channel
    /\ channel' = channel \cup {Msg("captured", tab)}
    /\ UNCHANGED <<capturingTabs, isCapturing>>
    /\ UNCHANGED <<coreVars, storeVars, tempVars, routerVars, flightVars>>

\* SelectorCaptured arrives at the background: handleSelectorCaptured.
HandleSelectorCaptured(m) ==
    /\ m \in channel
    /\ m.type = "captured"
    /\ capturingTabs' = capturingTabs \ {m.tab}
    /\ channel' = (channel \ {m}) \cup {Msg("captured-reply", m.tab)}
    /\ UNCHANGED <<isCapturing, coreVars, storeVars, tempVars, routerVars, flightVars>>

\* The send of SelectorCaptured settles in the content script, with the
\* reply or (the background did not get the message) with a rejection that
\* finalizeCapture catches: .finally(stopCapture).
RelaySettles(m) ==
    /\ m \in channel
    /\ m.type \in {"captured", "captured-reply"}
    /\ isCapturing' = stopCapture(isCapturing, m.tab)
    /\ channel' = channel \ {m}
    /\ UNCHANGED <<capturingTabs, coreVars, storeVars, tempVars, routerVars, flightVars>>

\* Escape is pressed in the page while capturing: handleKeydown.
Escape(tab) ==
    /\ isCapturing[tab]
    /\ isCapturing' = stopCapture(isCapturing, tab)
    /\ UNCHANGED <<capturingTabs, channel>>
    /\ UNCHANGED <<coreVars, storeVars, tempVars, routerVars, flightVars>>

(***************************************************************************)
(* AiGenerate requests of several tabs side by side                        *)
(* (src/entrypoints/background.ts, lines 342-565, and JobManager).  A      *)
(* request first awaits loadAiProviderConfig (line 364); with a            *)
(* configuration it calls aiJobManager.run under the key of its tab, whose *)
(* task awaits generateScript with the job's signal.  A generateScript     *)
(* call whose token was signalled while the HTTP call was under way only   *)
(* rejects, with the transport's timed-out error.  Each request keeps what *)
(* aborted its signal (by), and what was true when it answered: whether a  *)
(* later request of its tab had arrived (overtaken) and whether one had    *)
(* called run (superseded).  by is the request whose run aborted the       *)
(* signal, -1 for AiCancel, 0 for none.                                    *)
(***************************************************************************)
MaxRequests == 3

NotConfigured == "AI provider not configured."

AiRequest(tab) ==
    [tab |-> tab, pc |-> "config", ran |-> 0, aborted |-> FALSE, by |-> 0,
     response |-> [ok |-> FALSE, error |-> ""],
     overtaken |-> FALSE, superseded |-> FALSE]

\* const jobKey = `tab-${tabId}`
jobKey(tab) == tab

cancelAnyTab(reqs, jobsMap, key, by) ==
    IF jobsMap = EmptyMap THEN reqs
    ELSE [i \in DOMAIN reqs |->
             IF \E k \in DOMAIN jobsMap : jobsMap[k] = i
             THEN [reqs[i] EXCEPT !.aborted = TRUE, !.by = by] ELSE reqs[i]]

\* JobManager.cancel(key) on the requests: the controller of the job that
\* is registered under key aborts.
cancelActive(reqs, jobsMap, key, by) ==
    IF ~MapHas(jobsMap, key) THEN reqs
    ELSE [reqs EXCEPT ![jobsMap[key]].aborted = TRUE, ![jobsMap[key]].by = by]

\* ... and on the registry.
forget(jobsMap, key) == IF MapHas(jobsMap, key) THEN MapDelete(jobsMap, key) ELSE jobsMap

\* The finally of JobManager.run: the job leaves the registry if it is
\* still the one registered under its key.
settled(jobsMap, key, i) ==
    IF MapHas(jobsMap, key) /\ jobsMap[key] = i THEN MapDelete(jobsMap, key)
    ELSE jobsMap

\* The requests of the tab of request i that arrived after it, and those
\* of them that have called aiJobManager.run after it.
LaterArrivals(i) == {j \in DOMAIN requests : j > i /\ requests[j].tab = requests[i].tab}
LaterRuns(i) == {j \in LaterArrivals(i) : requests[j].ran > requests[i].ran}
    \cup {j \in DOMAIN requests :
            /\ j < i /\ requests[j].tab = requests[i].tab
            /\ requests[j].ran > requests[i].ran}

Answer(i, response) ==
    [requests[i] EXCEPT !.pc = "responded", !.response = response,
                        !.overtaken = LaterArrivals(i) # {},
                        !.superseded = requests[i].ran # 0 /\ LaterRuns(i) # {}]

\* AiGenerate arrives for a tab with a captured selector: handleAiGenerate
\* runs up to await loadAiProviderConfig().
AiGenerate(tab) ==
    /\ Len(requests) < MaxRequests
    /\ requests' = Append(requests, AiRequest(tab))
    /\ UNCHANGED <<active, coreVars, storeVars, tempVars, routerVars, captureVars>>

\* loadAiProviderConfig settles.  Without a usable configuration the
\* request answers at once; with one, aiJobManager.run cancels the job of
\* the tab, registers the new one, and the task runs up to the await of
\* generateScript.
ConfigLoaded(i, configured) ==
    /\ requests[i].pc = "config"
    /\ IF ~configured
       THEN /\ requests' = [requests EXCEPT
                               ![i] = Answer(i, [ok |-> FALSE, error |-> NotConfigured])]
            /\ UNCHANGED active
       ELSE LET key == jobKey(requests[i].tab)
                ranSoFar == Cardinality({j \in DOMAIN requests : requests[j].ran # 0})
            IN /\ requests' = [cancelActive(requests, active, key, i) EXCEPT
                                  ![i].pc = "generating", ![i].ran = ranSoFar + 1]
               /\ active' = MapSet(forget(active, key), key, i)
    /\ UNCHANGED <<coreVars, storeVars, tempVars, routerVars, captureVars>>

\* AiCancel arrives for a tab: handleAiCancel.
AiCancel(tab) ==
    /\ MapHas(active, jobKey(tab))
    /\ requests' = cancelActive(requests, active, jobKey(tab), -1)
    /\ active' = forget(active, jobKey(tab))
    /\ UNCHANGED <<coreVars, storeVars, tempVars, routerVars, captureVars>>

\* generateScript of request i settles, with error or (NoError) with
\* script; the rest of the task, the catch and finally of run and the reply
\* follow.
GenerationSettles(i, error, script) ==
    /\ requests[i].pc = "generating"
    /\ requests[i].aborted => error = TimedOut
    /\ (error = NoError) = (script # NoScriptYet)
    /\ LET thrown == taskAfterGenerate(error, script, requests[i].aborted)
       IN /\ requests' = [requests EXCEPT
                             ![i] = Answer(i, respond(jobStatus(thrown), thrown))]
          /\ active' = settled(active, jobKey(requests[i].tab), i)
    /\ UNCHANGED <<coreVars, storeVars, tempVars, routerVars, captureVars>>


\* A new JobManager, a page to which no preview has been applied, and no
\* executeJs or generateScript call yet.
Init ==
    /\ jobs = EmptyMap
    /\ job = <<>>
    /\ previews = EmptyMap
    /\ doc = <<>>
    /\ call = <<>>
    /\ runs = <<>>
    /\ warn = <<>>
    /\ revoked = {}
    /\ stored = {}
    /\ exec = NotStarted
    /\ gen = [pc |-> "idle", caught |-> NoError, error |-> NoError]
    /\ controller = [aborted |-> FALSE, triggers |-> {}]
    /\ abortSignal = [given |-> FALSE, aborted |-> FALSE, listener |-> FALSE]
    /\ abortTimer = "none"
    /\ http = NoCall
    /\ parsed = [pc |-> "idle", content |-> NoContent, payload |-> NoPayload]
    /\ validated = NoValidation
    /\ built = NoBuild
    /\ hist = NoHistory
    /\ ai = NoRequests
    /\ idb = EmptyMap
    /\ fallbackList = <<>>
    /\ ops = <<>>
    /\ temp = NoTempScript
    /\ routed = NotRouted
    /\ requests = <<>>
    /\ active = EmptyMap
    /\ capturingTabs = {}
    /\ isCapturing = [t \in Tabs |-> FALSE]
    /\ channel = {}

\* No applyPreviewScript call for id is suspended.
Quiet(id) == \A c \in DOMAIN call : InFlight(c) => call[c].id # id

(***************************************************************************)
(* Calls on one script id made one after the other: each starts after the  *)
(* calls before it on that id have settled.                                *)
(***************************************************************************)
PreviewSeqNext ==
    \/ \E id \in Ids, css \in BOOLEAN, js \in JsKinds, hk \in CleanupKinds \cup {"none"} :
          Quiet(id) /\ ApplyStart(id, css, js, hk)
    \/ \E c \in 1..MaxCalls : ApplyExec(c)
    \/ \E c \in 1..MaxCalls : ApplyFinish(c)
    \/ \E id \in Ids : Quiet(id) /\ Remove(id)
    \/ (\A id \in Ids : Quiet(id)) /\ Clear

JobNext ==
    \/ \E k \in Keys, aware \in BOOLEAN, thrown \in {"no"} \cup Failures :
          Run(k, aware, thrown)
    \/ \E j \in JobIds : TaskFulfil(j)
    \/ \E j \in JobIds, f \in Failures : TaskReject(j, f)
    \/ \E j \in JobIds : Settle(j)
    \/ \E k \in Keys : Cancel(k)
    \/ CancelAll

ExecNext ==
    \/ \E blank \in BOOLEAN : ExecStart(blank)
    \/ \E cb \in Callbacks : ExecRegister(cb)
    \/ \E how \in {"return", "resolve"}, v \in Results : ExecReturn(how, v)
    \/ \E how \in {"throw", "reject"} : ExecThrow(how)

ClientNext ==
    \/ \E token \in {"absent", "live", "aborted"}, timeout \in BOOLEAN :
          GenerateScript(token, timeout)
    \/ ExternalAbort
    \/ TimerFires
    \/ \E status \in Statuses, body \in Bodies : HttpResponds(status, body)
    \/ \E error \in HttpFailures : HttpFails(error)
    \/ AbortSurfaces
    \/ BodyRead

ParseNext == \E content \in Contents : ParseScriptPayload(content)

ValidateNext == \E payload \in Payloads : ValidateGeneratedScript(payload)

BuildNext == \E input \in Inputs : BuildGenerationParams(input)

HistoryNext ==
    \/ \E role \in Roles : AddMessage(role)
    \/ NormaliseHistory

StoreSeqNext ==
    \/ \E op \in Operations : CallInTurn(op)
    \/ \E i \in DOMAIN ops : IndexedDbServes(i)
    \/ \E i \in DOMAIN ops : IndexedDbFails(i)
    \/ \E i \in DOMAIN ops : FallbackRead(i)
    \/ \E i \in DOMAIN ops : FallbackWrite(i)

\* Saves and removes that may overlap.
StoreNext ==
    \/ \E op \in Updates : Call(op)
    \/ \E i \in DOMAIN ops : IndexedDbServes(i)
    \/ \E i \in DOMAIN ops : IndexedDbFails(i)
    \/ \E i \in DOMAIN ops : FallbackRead(i)
    \/ \E i \in DOMAIN ops : FallbackWrite(i)

TempNext ==
    \/ \E id \in Ids, js \in JsKinds, indexedDbFails \in BOOLEAN :
          HandleTempScriptCreate(id, js, indexedDbFails)
    \/ \E indexedDbFails \in BOOLEAN : ContentUnreachable(indexedDbFails)
    \/ ContentApplies
    \/ \E indexedDbFails \in BOOLEAN : AnswerArrives(indexedDbFails)
    \/ PreviewSettles

RouterNext ==
    \/ \E type \in MessageTypes, request \in MessageTypes, payload \in Tabs,
          handler \in HandlerKinds : Route(type, request, payload, handler)
    \/ HandlerSettles

AiNext ==
    \/ \E userPrompt \in UserPrompts : HandleAiGenerate(userPrompt)
    \/ \E cause \in {"AiCancel", "superseded"} : CancelJob(cause)
    \/ \E script \in GeneratedScripts \cup {NoScriptYet} : TaskSettles(script)
    \/ TimerFires
    \/ \E status \in Statuses, body \in Bodies : HttpResponds(status, body)
    \/ \E error \in HttpFailures : HttpFails(error)
    \/ AbortSurfaces
    \/ BodyRead

JobSpec == Init /\ [][JobNext]_vars

ExecSpec == Init /\ [][ExecNext]_vars

ClientSpec == Init /\ [][ClientNext]_vars

ParseSpec == Init /\ [][ParseNext]_vars

ValidateSpec == Init /\ [][ValidateNext]_vars

BuildSpec == Init /\ [][BuildNext]_vars

HistorySpec == Init /\ [][HistoryNext]_vars

AiSpec == Init /\ [][AiNext]_vars

\* What the completions of these requests carry: a clean script or one
\* without JavaScript.
FlightScripts ==
    {script \in GeneratedScripts : script.jsCode \in {Str(0, 40, 0, {}), EmptyString}}

FlightNext ==
    \/ \E tab \in Tabs : AiGenerate(tab)
    \/ \E i \in DOMAIN requests, configured \in BOOLEAN : ConfigLoaded(i, configured)
    \/ \E tab \in Tabs : AiCancel(tab)
    \/ \E i \in DOMAIN requests, error \in {NoError, TimedOut},
          script \in {NoScriptYet} \cup FlightScripts :
          GenerationSettles(i, error, script)

FlightSpec == Init /\ [][FlightNext]_vars

CaptureNext ==
    \/ \E tab \in Tabs : SelectorCaptureStart(tab)
    \/ \E tab \in Tabs : SelectorCaptureStop(tab)
    \/ \E m \in channel : ContentReceives(m)
    \/ \E m \in channel : ForwardFails(m)
    \/ \E tab \in Tabs : Click(tab)
    \/ \E m \in channel : HandleSelectorCaptured(m)
    \/ \E m \in channel : RelaySettles(m)
    \/ \E tab \in Tabs : Escape(tab)

CaptureSpec == Init /\ [][CaptureNext]_vars

RouterSpec == Init /\ [][RouterNext]_vars

TempSpec == Init /\ [][TempNext]_vars

StoreSeqSpec == Init /\ [][StoreSeqNext]_vars

StoreSpec == Init /\ [][StoreNext]_vars

\* An HTTP call that has seen the abort does reject, and generateScript
\* then resumes.
ClientFairSpec == ClientSpec /\ WF_vars(AbortSurfaces)

PreviewSeqSpec == Init /\ [][PreviewSeqNext]_vars

(***************************************************************************)
(* Overlapping calls: applyPreviewScript, removePreviewScript and          *)
(* clearPreviewScripts are called whenever the page is between two         *)
(* continuations, also while applies of the same id are suspended in       *)
(* executeJs (content.ts 168-173 does not await applyPreviewScript).  The   *)
(* scripts are those without JavaScript, those that return a cleanup       *)
(* handler and those that throw.                                           *)
(***************************************************************************)
OverlapJs == {"blank", "return", "throw"}
OverlapCleanups == {"ok", "throws"}

PreviewNext ==
    \/ \E id \in Ids, css \in BOOLEAN, js \in OverlapJs, hk \in OverlapCleanups \cup {"none"} :
          ApplyStart(id, css, js, hk)
    \/ \E c \in 1..MaxCalls : ApplyExec(c)
    \/ \E c \in 1..MaxCalls : ApplyFinish(c)
    \/ \E id \in Ids : Remove(id)
    \/ Clear

PreviewSpec == Init /\ [][PreviewNext]_vars

(***************************************************************************)
(* Properties of the job supervisor.                                       *)
(***************************************************************************)
Started == DOMAIN job
Registered(j) == MapHas(jobs, job[j].key) /\ jobs[job[j].key] = j
Success(j) == [status |-> "success", value |-> ValueOf(j), error |-> "-"]

\* C1: single-flight.  When run(key, fast) replaces a job whose
\* cancellation-aware task is still pending, the replaced job resolves
\* 'cancelled', and the replacing job, once its task completes, resolves
\* 'success' with its own task's value.
C1_SingleFlight ==
    \A a \in Started :
        (job[a].how = "run" /\ job[a].hit) =>
            /\ Settled(job[a]) => job[a].outcome.status = "cancelled"
            /\ LET b == job[a].by
               IN (b \in Started /\ Settled(job[b]) /\ job[b].task = "fulfilled")
                      => job[b].outcome = Success(b)

C1_Witness ==
    \E a \in Started :
        /\ job[a].how = "run" /\ job[a].hit
        /\ job[a].outcome.status = "cancelled"
        /\ job[a].by \in Started
        /\ job[job[a].by].aware
        /\ job[job[a].by].outcome = Success(job[a].by)

\* C2: ownership check.  A job that is neither settled nor cancelled is the
\* entry registered under its key: the settlement of an older, evicted job
\* never removes it.
C2_OwnEntryKept ==
    \A j \in Started :
        (~Settled(job[j]) /\ ~job[j].aborted) => Registered(j)

C2_Witness ==
    \E a \in Started :
        /\ job[a].how = "run" /\ job[a].task # "thrown"
        /\ Settled(job[a])
        /\ job[a].by \in Started
        /\ ~Settled(job[job[a].by])
        /\ Registered(job[a].by)

\* C3 as stated: a job that has been cancelled or replaced never resolves
\* with status 'success'.
C3_CancelledNeverSucceeds ==
    \A j \in Started :
        job[j].how # "none" => job[j].outcome.status # "success"

\* C3 as amended: a job whose cancellation-aware task was still pending
\* when the job was cancelled or replaced never resolves 'success'.
C3_AwarePendingNeverSucceeds ==
    \A j \in Started :
        (job[j].how # "none" /\ job[j].hit) => job[j].outcome.status # "success"

C3_Witness ==
    \E j \in Started :
        /\ job[j].how \in {"cancel", "cancelAll"} /\ job[j].hit
        /\ job[j].outcome.status = "cancelled"

\* C4: at most one job per key is both unsettled and unsignalled; every
\* job started earlier under the same key has been signalled or has
\* settled, and the registry entry of a key is the job started last for it.
C4_AtMostOneInFlight ==
    /\ \A k \in Keys :
          Cardinality({j \in Started : job[j].key = k /\ ~Settled(job[j])
                                        /\ ~job[j].aborted}) <= 1
    /\ \A a \in Started, b \in Started :
          (a < b /\ job[a].key = job[b].key) =>
              /\ job[a].aborted \/ Settled(job[a])
              /\ ~Registered(a)

C4_Witness ==
    \E a \in Started, b \in Started :
        /\ a < b /\ job[a].key = job[b].key
        /\ job[a].how = "run" /\ job[a].aborted /\ ~Settled(job[a])
        /\ ~Settled(job[b]) /\ Registered(b)

\* C5: a settled job carries exactly one of the three outcomes: 'success'
\* with the task's value when the task completed, 'cancelled' when it
\* failed with an AbortError, 'error' with the original cause otherwise.
C5_Outcome ==
    \A j \in Started :
        Settled(job[j]) =>
            /\ job[j].outcome.status \in {"success", "cancelled", "error"}
            /\ job[j].task = "fulfilled" => job[j].outcome = Success(j)
            /\ (job[j].task # "fulfilled" /\ job[j].failure = "abort") =>
                  job[j].outcome = [status |-> "cancelled", value |-> 0, error |-> "-"]
            /\ (job[j].task # "fulfilled" /\ job[j].failure # "abort") =>
                  job[j].outcome =
                      [status |-> "error", value |-> 0, error |-> job[j].failure]

C5_Witness ==
    \E a \in Started, b \in Started :
        /\ job[a].outcome = [status |-> "error", value |-> 0, error |-> "boom"]
        /\ job[a].task = "rejected"
        /\ job[b].outcome.status = "cancelled" /\ ~job[b].aborted

\* C6: the registry never holds an entry for a job that has settled.
C6_NoSettledEntry ==
    \A k \in DOMAIN jobs : ~Settled(job[jobs[k]])

\* C7: cancel(key) signals the token of the job registered under key and
\* removes its entry in the same step; with no job under key it changes
\* nothing.
C7_Cancel ==
    [][\A k \in Keys :
          Cancel(k) =>
              IF MapHas(jobs, k)
              THEN job'[jobs[k]].aborted /\ ~MapHas(jobs', k)
              ELSE jobs' = jobs /\ job' = job]_vars

C7_Witness ==
    \E j \in Started :
        /\ job[j].how = "cancel" /\ job[j].aborted
        /\ ~Settled(job[j])
        /\ ~MapHas(jobs, job[j].key)

\* C8: cancelAll() leaves the registry empty and signals the token of
\* every job that was registered.
C8_CancelAll ==
    [][CancelAll =>
          /\ jobs' = EmptyMap
          /\ \A k \in DOMAIN jobs : job'[jobs[k]].aborted]_vars

C8_Witness ==
    \E a \in Started, b \in Started :
        /\ job[a].key # job[b].key
        /\ job[a].how = "cancelAll" /\ job[b].how = "cancelAll"
        /\ job[a].aborted /\ job[b].aborted
        /\ jobs = EmptyMap

\* C9: run(k, ...) and cancel(k) leave every job of another key, and the
\* registry entry of every other key, as they were.
OtherKeysUntouched(k) ==
    /\ \A j \in Started : job[j].key # k => job'[j] = job[j]
    /\ \A x \in Keys \ {k} :
          /\ MapHas(jobs', x) <=> MapHas(jobs, x)
          /\ MapHas(jobs, x) => jobs'[x] = jobs[x]

C9_KeysIndependent ==
    [][\A k \in Keys :
          (Cancel(k) \/ \E aware \in BOOLEAN, thrown \in {"no"} \cup Failures :
                            Run(k, aware, thrown))
              => OtherKeysUntouched(k)]_vars

C9_Witness ==
    \E a \in Started, b \in Started :
        /\ b < a /\ job[a].key # job[b].key
        /\ job[a].how = "cancel"
        /\ Registered(b) /\ ~job[b].aborted /\ ~Settled(job[b])

(***************************************************************************)
(* Properties of the preview applicator.                                   *)
(***************************************************************************)
\* While a re-apply is suspended, before and while its script runs, the
\* cleanup of the entry it replaced has been invoked exactly once.
OldCleanupRanOnce ==
    \A c \in DOMAIN call :
        (InFlight(c) /\ call[c].oldCleanup # 0) => runs[call[c].oldCleanup] = 1

\* C10: re-apply is idempotent.  When an apply of a script with css, made
\* after an earlier apply of the same id has resolved, resolves in turn,
\* the document holds exactly one stylesheet tagged with the id, the
\* registry holds the entry of the second apply, and the cleanup of the
\* first has been invoked exactly once, before the second script ran.
C10_Reapply ==
    [][/\ OldCleanupRanOnce'
       /\ \A c \in DOMAIN call :
             (ApplyFinish(c) /\ call[c].replaced # 0 /\ call[c].css
                 /\ call'[c].pc = "done") =>
                 /\ Cardinality(StylesOf(doc', call[c].id)) = 1
                 /\ MapHas(previews', call[c].id)
                 /\ previews'[call[c].id].owner = c
                 /\ previews'[call[c].id].styleEl = c
                 /\ call[c].oldCleanup # 0 => runs'[call[c].oldCleanup] = 1]_vars

C10_Witness ==
    \E id \in DOMAIN previews :
        /\ previews[id].replaced # 0
        /\ previews[id].oldCleanup # 0
        /\ previews[id].styleEl # 0
        /\ Cardinality(StylesOf(doc, id)) = 1
        /\ runs[previews[id].oldCleanup] = 1

(***************************************************************************)
(* C11: failure rollback.  When the script that applyPreviewScript         *)
(* executes throws, or the promise it returns rejects, the call rejects    *)
(* with that same failure, no stylesheet tagged with the script id is left *)
(* in the document, and the registry has no entry for the id.  Calls on    *)
(* one id are made one after the other.                                    *)
(***************************************************************************)
C11_FailureRollback ==
    [][\A c \in DOMAIN call :
          (ApplyFinish(c) /\ executeJs(c, call[c].js, call[c].hk).threw)
              => /\ call'[c].pc = "failed"
                 /\ call'[c].err = ScriptError
                 /\ StylesOf(doc', call[c].id) = {}
                 /\ ~MapHas(previews', call[c].id)]_vars

\* A call whose script failed has rejected while a preview of another id
\* is registered with its stylesheet.
C11_Witness ==
    \E c \in DOMAIN call :
        /\ call[c].pc = "failed"
        /\ call[c].err = ScriptError
        /\ \E id \in DOMAIN previews : StylesOf(doc, id) # {}

(***************************************************************************)
(* C12: the teardown on re-apply is best-effort.  When applyPreviewScript  *)
(* finds an entry for the id and the cleanup of that entry fails, by       *)
(* throwing when it is called or by returning a rejected promise, the call *)
(* does not fail with it: the old stylesheet is removed, the old entry is  *)
(* dropped and the new payload is applied (its stylesheet attached, its    *)
(* script about to run).                                                   *)
(***************************************************************************)
C12_BestEffortTeardown ==
    [][\A id \in Ids, css \in BOOLEAN, js \in JsKinds, hk \in CleanupKinds \cup {"none"} :
          (/\ ApplyStart(id, css, js, hk)
           /\ MapHas(previews, id)
           /\ previews[id].cleanup.kind \in {"throws", "rejects"})
              => LET c == Len(call')
                     old == previews[id]
                 IN /\ call'[c].pc = "exec"
                    /\ \A i \in DOMAIN doc' : doc'[i].el # old.styleEl \/ old.styleEl = 0
                    /\ ~MapHas(previews', id)
                    /\ css => StylesOf(doc', id) = {Len(doc')}]_vars

(***************************************************************************)
(* C13: removePreviewScript never throws.  When the cleanup of the entry   *)
(* fails, by throwing or by rejecting, the failure is caught and logged,   *)
(* the stylesheet of the entry is removed and the entry is deleted.        *)
(***************************************************************************)
C13_RemoveNeverThrows ==
    [][\A id \in Ids :
          (/\ Remove(id)
           /\ MapHas(previews, id)
           /\ previews[id].cleanup.kind \in {"throws", "rejects"})
              => LET e == previews[id]
                 IN /\ ~removePreviewScript(Page, id).threw
                    /\ runs'[e.cleanup.h] = runs[e.cleanup.h] + 1
                    /\ warn'[e.cleanup.h]
                    /\ \A i \in DOMAIN doc' : doc'[i].el # e.styleEl \/ e.styleEl = 0
                    /\ StylesOf(doc', id) = {}
                    /\ ~MapHas(previews', id)]_vars

\* A handler that throws was called by a re-apply, which failed, and again
\* by the removePreviewScript that revoked its entry and logged the failure.
C13_Witness ==
    \E h \in DOMAIN warn :
        /\ warn[h]
        /\ runs[h] = 2
        /\ \A id \in DOMAIN previews : previews[id].cleanup.h # h

(***************************************************************************)
(* C14: removePreviewScript(id) for an id without an entry changes         *)
(* nothing: the registry with every other entry, the document, and the     *)
(* cleanup handlers, none of which is called; and it does not throw.       *)
(***************************************************************************)
C14_RemoveAbsentIsNoOp ==
    \A id \in Ids :
        ~MapHas(previews, id)
            => LET r == removePreviewScript(Page, id)
               IN /\ r.previews = previews
                  /\ r.doc = doc
                  /\ r.runs = runs
                  /\ r.warn = warn
                  /\ ~r.threw

\* One id has no entry while another is registered with a stylesheet and a
\* cleanup handler that has not been called.
C14_Witness ==
    \E id \in Ids, other \in DOMAIN previews :
        /\ ~MapHas(previews, id)
        /\ StylesOf(doc, other) # {}
        /\ previews[other].cleanup.h # 0
        /\ runs[previews[other].cleanup.h] = 0

(***************************************************************************)
(* C15: when clearPreviewScripts returns, the registry is empty, no        *)
(* stylesheet tagged with an id that was registered is left, and the       *)
(* cleanup of every entry that was registered has been called, whether or  *)
(* not cleanups fail.                                                      *)
(***************************************************************************)
C15_ClearAll ==
    [][Clear =>
          /\ previews' = EmptyMap
          /\ \A id \in DOMAIN previews :
                /\ StylesOf(doc', id) = {}
                /\ previews[id].cleanup.h # 0 =>
                       runs'[previews[id].cleanup.h] = runs[previews[id].cleanup.h] + 1]_vars

\* Nothing is registered and no stylesheet is left after two previews with
\* cleanup handlers were revoked, and the failure of one handler was logged.
C15_Witness ==
    /\ previews = EmptyMap
    /\ doc = <<>>
    /\ \E g, h \in DOMAIN runs :
          g # h /\ runs[g] = 1 /\ runs[h] = 1 /\ warn[g] /\ ~warn[h]

(***************************************************************************)
(* C16: cleanup precedence in executeJs.  The cleanup that executeJs       *)
(* resolves with, which applyPreviewScript stores, is the function the     *)
(* script returned (directly or as the resolved value of its promise) when *)
(* that value is callable; otherwise the last function passed to           *)
(* registerCleanup; otherwise none.  Arguments of registerCleanup that are *)
(* not functions are ignored.                                              *)
(***************************************************************************)
LastFunction(regs) ==
    LET fns == {i \in DOMAIN regs : IsFunction(regs[i])}
    IN IF fns = {} THEN NoCleanup
       ELSE regs[CHOOSE i \in fns : \A k \in fns : k <= i]

C16_CleanupPrecedence ==
    exec.pc = "resolved" =>
        exec.out = IF exec.blank THEN NoCleanup
                   ELSE IF IsFunction(exec.result) THEN exec.result
                   ELSE LastFunction(exec.regs)

\* The script registered a function and then something that is not one,
\* and returned another function, which is the cleanup.
C16_Witness ==
    /\ exec.pc = "resolved"
    /\ Len(exec.regs) = 2
    /\ IsFunction(exec.regs[1])
    /\ ~IsFunction(exec.regs[2])
    /\ IsFunction(exec.result)
    /\ exec.result # exec.regs[1]
    /\ exec.out = exec.result

(***************************************************************************)
(* Properties of the model transport.                                      *)
(***************************************************************************)
SettledRequest == gen.pc \in {"resolved", "rejected"}

(***************************************************************************)
(* C17: cancellation of a model request.  The controller of the request    *)
(* is aborted as soon as the caller's token is aborted during the request  *)
(* or the timeout timer fires, whichever is first; generateScript then     *)
(* rejects with the ModelClientError 'Model request timed out.'; deps.fetch *)
(* is called once and the HTTP call sees the abort exactly once, also when *)
(* both triggers fire.                                                     *)
(***************************************************************************)
C17_AbortOnce ==
    /\ abortTimer = "fired" => controller.aborted
    /\ (abortSignal.aborted /\ InFlightRequest) => controller.aborted
    /\ controller.aborted => (abortTimer = "fired" \/ abortSignal.aborted)
    /\ gen.pc # "idle" => http.calls = 1
    /\ http.observed = IF controller.aborted THEN 1 ELSE 0
    /\ (SettledRequest /\ controller.aborted)
          => (gen.pc = "rejected" /\ gen.error = TimedOut)

C17_Cancellation ==
    /\ []C17_AbortOnce
    /\ controller.aborted ~> (gen.pc = "rejected" /\ gen.error = TimedOut)

\* The token was aborted and the timer fired during one request, which
\* has rejected.
C17_Witness ==
    /\ controller.triggers = {"token", "timer"}
    /\ gen.pc = "rejected"
    /\ gen.error = TimedOut
    /\ http.calls = 1
    /\ http.observed = 1

(***************************************************************************)
(* C18: release of the request's resources.  Whenever generateScript has   *)
(* settled, by a result, an HTTP error status, missing completion text,    *)
(* cancellation by the caller, the timeout or any other failure, the       *)
(* timeout timer is no longer armed and the abort listener is no longer    *)
(* registered on the caller's token.                                       *)
(***************************************************************************)
C18_Released ==
    SettledRequest => (abortTimer # "armed" /\ ~abortSignal.listener)

\* A request with a timeout and a token has returned a result; the timer
\* was cleared, and the token, aborted afterwards, no longer reaches the
\* controller.
C18_Witness ==
    /\ gen.pc = "resolved"
    /\ abortTimer = "cleared"
    /\ abortSignal.given
    /\ abortSignal.aborted
    /\ ~controller.aborted

(***************************************************************************)
(* C19: failure semantics of the model transport.  Every rejection of      *)
(* generateScript is a ModelClientError: a ModelClientError thrown inside  *)
(* the request unchanged, 'Model request timed out.' with details          *)
(* {timeoutMs} for a failure classified as an abort, and for any other     *)
(* thrown value a ModelClientError that keeps the message the value has.   *)
(***************************************************************************)
C19_FailureSemantics ==
    gen.pc = "rejected" =>
        /\ gen.error.class = "ModelClientError"
        /\ gen.caught.class = "ModelClientError" => gen.error = gen.caught
        /\ gen.caught.name = "AbortError" => gen.error = TimedOut
        /\ (/\ gen.caught.class # "ModelClientError"
            /\ gen.caught.name # "AbortError"
            /\ gen.caught.message \notin {"-", "undefined"})
               => gen.error.message = gen.caught.message

(***************************************************************************)
(* C20: on an HTTP status that is not a success, generateScript rejects    *)
(* with a ModelClientError that carries the status; its message is the     *)
(* provider's error.message when the body is JSON with a string            *)
(* error.message, else the raw body text when that is not empty, else      *)
(* 'Request failed with status <code>'.                                    *)
(***************************************************************************)
GenericMessage(status) ==
    CASE status = 429 -> "Request failed with status 429"
      [] status = 500 -> "Request failed with status 500"
      [] OTHER -> "Request failed"

C20_HttpErrorMessage ==
    (http.state = "done" /\ ~Ok(http.status)) =>
        /\ gen.pc = "rejected"
        /\ gen.error.class = "ModelClientError"
        /\ gen.error.status = http.status
        /\ gen.error.message =
              IF http.body.parses /\ http.body.msgType = "string"
              THEN http.body.msg
              ELSE IF http.body.text # "" THEN http.body.text
              ELSE GenericMessage(http.status)

\* Status 429 with a JSON body that carries error.message.
C20_Witness ==
    /\ http.state = "done"
    /\ http.status = 429
    /\ http.body.msgType = "string"
    /\ gen.pc = "rejected"
    /\ gen.error.message = "Rate limit exceeded"
    /\ gen.error.status = 429

(***************************************************************************)
(* Properties of parseScriptPayload.                                       *)
(***************************************************************************)
HoldsString(v) == v.type = "string"

(***************************************************************************)
(* C21: the fallback of parseScriptPayload.  For every extracted text that *)
(* is not valid JSON, or that parses as JSON but has no jsCode or js_code  *)
(* field holding a string, the payload is { jsCode: the entire text },     *)
(* without cssCode and without urlMatchPattern.                            *)
(***************************************************************************)
C21_ParseFallback ==
    LET c == parsed.content
    IN (/\ parsed.pc = "returned"
        /\ \/ c.json = "invalid"
           \/ ~HoldsString(c.fields.jsCode) /\ ~HoldsString(c.fields.js_code))
          => /\ parsed.payload.jsCode.type = "string"
             /\ parsed.payload.jsCode.text = c.text
             /\ parsed.payload.cssCode = Undef
             /\ parsed.payload.urlMatchPattern = Undef

\* ---------------------------------------------------------------------
\* Properties of validateGeneratedScript.

Validation == validated.result

NonBlank(v) == v.type = "string" /\ v.core > 0

\* C22: for every payload the result has ok true exactly when errors is
\* empty, and a script exactly when ok is true.
C22_OkIffNoErrors ==
    validated.pc = "returned"
        => /\ Validation.ok <=> (Validation.errors = <<>>)
           /\ Validation.script.present <=> Validation.ok

\* A rejected payload that still collected a warning (oversized CSS).
C22_Witness ==
    /\ validated.pc = "returned"
    /\ ~Validation.ok
    /\ Validation.warnings # <<>>

\* C23: a payload whose jsCode is missing, not a string, empty or
\* whitespace-only is rejected: ok is false, there is no script, and the
\* only error is 'Generated response did not include JavaScript to execute.'.
C23_MissingJavaScript ==
    (validated.pc = "returned" /\ ~NonBlank(validated.payload.jsCode))
        => /\ ~Validation.ok
           /\ ~Validation.script.present
           /\ Validation.errors =
                  <<"Generated response did not include JavaScript to execute.">>

\* A whitespace-only jsCode was validated.
C23_Witness ==
    /\ validated.pc = "returned"
    /\ validated.payload.jsCode.type = "string"
    /\ validated.payload.jsCode.lead > 0
    /\ validated.payload.jsCode.core = 0
    /\ ~Validation.ok

\* The warnings a payload is due: one per pattern that occurs in jsCode,
\* one for a jsCode longer than 8000 characters and one for a cssCode
\* longer than 4000, both measured on the code without its surrounding
\* whitespace.
DueWarnings(payload) ==
    { PatternMessage[t] : t \in payload.jsCode.tags }
    \cup (IF payload.jsCode.core > 8000 THEN {JsTooLong} ELSE {})
    \cup (IF payload.cssCode.type = "string" /\ payload.cssCode.core > 4000
          THEN {CssTooLong} ELSE {})

\* C24: findings only warn.  Every payload with non-blank jsCode validates
\* with ok true whatever its size or content, and its warnings are exactly:
\* one per matched pattern (fetch call, XMLHttpRequest, chrome.*), one when
\* the (trimmed) jsCode exceeds 8000 characters, one when the (trimmed)
\* cssCode exceeds 4000 characters, each once and no others.
C24_WarnOnly ==
    (validated.pc = "returned" /\ NonBlank(validated.payload.jsCode))
        => /\ Validation.ok
           /\ Validation.errors = <<>>
           /\ { Validation.warnings[i] : i \in DOMAIN Validation.warnings }
                  = DueWarnings(validated.payload)
           /\ Len(Validation.warnings) = Cardinality(DueWarnings(validated.payload))

\* All three patterns, an oversized script and an oversized stylesheet in
\* one payload: five warnings and still ok.
C24_Witness ==
    /\ validated.pc = "returned"
    /\ Validation.ok
    /\ Len(Validation.warnings) = 5

WithinLimits(payload) ==
    /\ length(payload.jsCode) <= 8000
    /\ payload.cssCode.type = "string" => length(payload.cssCode) <= 4000
    /\ payload.jsCode.tags = {}

\* C25 as stated: every payload whose jsCode is non-empty, within all size
\* limits and free of disallowed patterns validates with ok true, zero
\* warnings and a script whose jsCode is identical to the input jsCode.
C25_RoundTripIdentical ==
    (/\ validated.pc = "returned"
     /\ validated.payload.jsCode.type = "string"
     /\ length(validated.payload.jsCode) > 0
     /\ WithinLimits(validated.payload))
        => /\ Validation.ok
           /\ Validation.warnings = <<>>
           /\ Validation.script.jsCode = validated.payload.jsCode

\* C25: every payload whose jsCode is non-blank, within all size limits and
\* free of disallowed patterns validates with ok true, zero warnings and a
\* script whose jsCode is the input jsCode without its leading and trailing
\* whitespace; it is identical to the input when the input has none.
C25_RoundTrip ==
    (/\ validated.pc = "returned"
     /\ NonBlank(validated.payload.jsCode)
     /\ WithinLimits(validated.payload))
        => /\ Validation.ok
           /\ Validation.warnings = <<>>
           /\ Validation.script.jsCode =
                  Str(0, validated.payload.jsCode.core, 0, {})
           /\ (validated.payload.jsCode.lead + validated.payload.jsCode.trail = 0)
                  => Validation.script.jsCode = validated.payload.jsCode

\* A clean jsCode padded with whitespace on both sides was validated.
C25_Witness ==
    /\ validated.pc = "returned"
    /\ NonBlank(validated.payload.jsCode)
    /\ WithinLimits(validated.payload)
    /\ validated.payload.jsCode.lead > 0
    /\ validated.payload.jsCode.trail > 0
    /\ Validation.script.present

\* undefined for a field that is not a string.
StringOrUndefined(v) == IF v.type = "string" THEN v ELSE Missing

\* C26: on a successful validation the script carries the trimmed jsCode,
\* the cssCode exactly as supplied (untrimmed, or undefined when absent) and
\* the trimmed urlMatchPattern (or undefined when absent).
C26_ScriptFields ==
    (validated.pc = "returned" /\ Validation.ok)
        => LET p == validated.payload
               s == Validation.script
           IN /\ s.jsCode = Str(0, p.jsCode.core, 0, p.jsCode.tags)
              /\ s.cssCode = StringOrUndefined(p.cssCode)
              /\ s.urlMatchPattern =
                     (IF p.urlMatchPattern.type = "string"
                      THEN Str(0, p.urlMatchPattern.core, 0, {}) ELSE Missing)

\* ---------------------------------------------------------------------
\* Properties of buildGenerationParams.

\* C27: buildGenerationParams fails and produces no request for every input
\* whose userPrompt is missing, empty or whitespace-only; for every other
\* input it returns a request whose prompt is the trimmed userPrompt, which
\* is never empty.
C27_PromptRequired ==
    built.pc = "returned"
        => IF NonBlank(built.input.userPrompt)
           THEN /\ ~built.result.threw
                /\ built.result.params.prompt =
                       Str(0, built.input.userPrompt.core, 0, {})
                /\ length(built.result.params.prompt) > 0
           ELSE /\ built.result.threw
                /\ built.result.error =
                       "Prompt text is required to build generation payload."
                /\ built.result.params = NoParams

\* A prompt padded with whitespace was accepted.
C27_Witness ==
    /\ built.pc = "returned"
    /\ ~built.result.threw
    /\ built.input.userPrompt.lead > 0
    /\ built.input.userPrompt.trail > 0

BuiltWithPage ==
    /\ built.pc = "returned"
    /\ ~built.result.threw
    /\ built.input.page.present
    /\ built.input.page.surroundingHtml.type = "string"

DomSnippet == built.result.params.page.surroundingHtml

\* C28 as stated: every surroundingHtml longer than the 4000-character cap
\* gives a snippet of the cap plus the marker length that ends with the
\* marker; a surroundingHtml within the cap gets no marker.
C28_SnippetBoundedByInputLength ==
    BuiltWithPage
        => IF length(built.input.page.surroundingHtml) > 4000
           THEN /\ DomSnippet.type = "string"
                /\ length(DomSnippet) = 4000 + 19
                /\ Marker \in DomSnippet.tags
           ELSE Marker \notin DomSnippet.tags

\* C28: the cap applies to surroundingHtml without its leading and trailing
\* whitespace.  When that trimmed text is longer than 4000 characters the
\* snippet has length 4000 plus the marker length and ends with the marker;
\* when it is non-blank and within the cap the snippet is the trimmed text
\* without a marker; a blank surroundingHtml gives no snippet.
C28_SnippetBounded ==
    BuiltWithPage
        => LET html == built.input.page.surroundingHtml
           IN IF html.core > 4000
              THEN /\ DomSnippet.type = "string"
                   /\ length(DomSnippet) = 4000 + 19
                   /\ Marker \in DomSnippet.tags
              ELSE IF html.core > 0
              THEN DomSnippet = Str(0, html.core, 0, {})
              ELSE DomSnippet = Missing

\* A surroundingHtml longer than the cap only through its padding was built
\* into a request, and so was cut nowhere.
C28_Witness ==
    /\ BuiltWithPage
    /\ length(built.input.page.surroundingHtml) > 4000
    /\ built.input.page.surroundingHtml.core <= 4000
    /\ DomSnippet.type = "string"

\* ---------------------------------------------------------------------
\* Properties of normaliseHistory.

\* Positions of the user and assistant turns among the first n messages.
Qualifying(log, n) == { i \in 1..n : log[i].role \in {"user", "assistant"} }

\* The last 8 of them.
LastQualifying(log, n) ==
    { i \in Qualifying(log, n) :
        Cardinality({ j \in Qualifying(log, n) : j > i }) < 8 }

\* C29: for every conversation the built history holds only user and
\* assistant turns, namely the last 8 such turns in their original order
\* (fewer when fewer qualify), and is undefined, not an empty list, when no
\* turn qualifies.
C29_HistoryNormalised ==
    hist.pc = "returned"
        => LET keep == LastQualifying(hist.log, hist.seen)
               entries == hist.history.entries
           IN /\ hist.history.defined <=> keep # {}
              /\ Len(entries) = Cardinality(keep)
              /\ \A k \in 1..Len(entries) :
                    /\ entries[k].content \in keep
                    /\ entries[k].role =
                           (IF hist.log[entries[k].content].role = "assistant"
                            THEN "Assistant" ELSE "User")
                    /\ k > 1 => entries[k - 1].content < entries[k].content

\* Nine user and assistant turns were handed over: the history holds eight
\* and starts at the second.
C29_Witness ==
    /\ hist.pc = "returned"
    /\ hist.seen = 9
    /\ Cardinality(Qualifying(hist.log, 9)) = 9
    /\ Len(hist.history.entries) = 8
    /\ hist.history.entries[1].content = 2

\* ---------------------------------------------------------------------
\* Properties of handleAiGenerate.

Replied == ai.pc = "responded"

TokenSignalled == ai.cause # "none"

ValidationFailed ==
    /\ gen.pc = "resolved"
    /\ ~validateGeneratedScript(ai.script).ok

\* C30: the outcomes of an AI generation stay distinguishable.  A job whose
\* token was signalled (AiCancel or a superseding request) is reported as
\* cancelled with 'Request cancelled.', although the transport made
\* 'Model request timed out.' of the abort; a transport timeout with an
\* unsignalled token is reported as an error with that message and never as
\* cancelled; a validation failure is reported as an error whose message is
\* neither of the two.
C30_OutcomesDistinguishable ==
    Replied
        => /\ TokenSignalled
                => /\ ai.status = "cancelled"
                   /\ ai.response = [ok |-> FALSE, error |-> "Request cancelled."]
           /\ ai.status = "cancelled" => TokenSignalled
           /\ (~TokenSignalled /\ gen.error = TimedOut)
                => /\ ai.status = "error"
                   /\ ai.response = [ok |-> FALSE,
                                     error |-> "Model request timed out."]
           /\ (~TokenSignalled /\ ValidationFailed)
                => /\ ai.status = "error"
                   /\ ~ai.response.ok
                   /\ ai.response.error
                          = "Generated response did not include JavaScript to execute."
                   /\ ai.response.error
                          \notin {"Request cancelled.", "Model request timed out."}

\* A cancelled request whose generateScript call rejected with the
\* timed-out error was reported as cancelled.
C30_Witness ==
    /\ Replied
    /\ TokenSignalled
    /\ gen.error = TimedOut
    /\ ai.response.error = "Request cancelled."

\* ---------------------------------------------------------------------
\* Properties of the temporary script store.

ThroughFallback(i) == Done(i) /\ ops[i].via = "fallback"

\* Between operations i and j no save or remove of id was called.
Untouched(id, i, j) ==
    \A k \in (i + 1)..(j - 1) :
        ~(ops[k].kind \in {"save", "remove"} /\ ops[k].script.id = id)

\* C32: when the IndexedDB request of a save, a list or a remove fails the
\* operation is carried out on the browser.storage.local list.  A script
\* saved while IndexedDB fails is returned by a listing made while
\* IndexedDB fails, and a remove through the fallback leaves exactly the
\* records with other ids, in their order.
C32_StorageFallback ==
    /\ \A i, j \in DOMAIN ops :
          (/\ i < j
           /\ ops[i].kind = "save" /\ ThroughFallback(i)
           /\ ops[j].kind = "list" /\ ThroughFallback(j)
           /\ Untouched(ops[i].script.id, i, j))
             => ops[i].script \in ops[j].result
    /\ (/\ ops # <<>>
        /\ ops[Len(ops)].kind = "remove"
        /\ ThroughFallback(Len(ops)))
          => LET before == ops[Len(ops)].snapshot
                 id == ops[Len(ops)].script.id
                 others == { k \in DOMAIN before : before[k].id # id }
             IN /\ Len(fallbackList) = Cardinality(others)
                /\ \A k \in DOMAIN fallbackList : fallbackList[k].id # id
                /\ \A k, l \in others :
                      k < l => \E m, n \in DOMAIN fallbackList :
                                  /\ m < n
                                  /\ fallbackList[m] = before[k]
                                  /\ fallbackList[n] = before[l]
                /\ Records(fallbackList) = { before[k] : k \in others }

\* Two scripts were saved through the fallback and one of them was then
\* removed through it.
C32_Witness ==
    /\ Len(ops) = 3
    /\ ops[1].kind = "save" /\ ThroughFallback(1)
    /\ ops[2].kind = "save" /\ ThroughFallback(2)
    /\ ops[1].script.id # ops[2].script.id
    /\ ops[3].kind = "remove" /\ ThroughFallback(3)
    /\ Len(fallbackList) = 1

\* C39: after saveTemporaryScript(s) has resolved and before any removal of
\* s.id, every later listTemporaryScripts and getTemporaryScript(s.id)
\* returns s, whichever of the operations' IndexedDB requests fail.
C39_ReadYourWrites ==
    \A i, j \in DOMAIN ops :
        (/\ i < j
         /\ ops[i].kind = "save" /\ Done(i)
         /\ Done(j)
         /\ \/ ops[j].kind = "list"
            \/ ops[j].kind = "get" /\ ops[j].script.id = ops[i].script.id
         /\ Untouched(ops[i].script.id, i, j))
           => ops[i].script \in ops[j].result

AllThroughFallback == \A i \in DOMAIN ops : ThroughFallback(i)

\* C40: when saves and removes of different ids all fall back to
\* browser.storage.local and interleave, the fallback list afterwards
\* reflects every one of them, and it never holds two records with one id.
C40_NoLostUpdate ==
    /\ \A k, l \in DOMAIN fallbackList :
          fallbackList[k].id = fallbackList[l].id => k = l
    /\ (/\ AllThroughFallback
        /\ \A i, j \in DOMAIN ops : i # j => ops[i].script.id # ops[j].script.id)
          => \A i \in DOMAIN ops :
                IF ops[i].kind = "save"
                THEN ops[i].script \in Records(fallbackList)
                ELSE \A k \in DOMAIN fallbackList :
                        fallbackList[k].id # ops[i].script.id

\* ---------------------------------------------------------------------
\* Properties of handleTempScriptCreate.

TempSettled == temp.pc = "replied" /\ temp.preview # "running"

\* C31: handleTempScriptCreate persists the record as 'pending' before the
\* injection; its final persisted status is 'applied' only if the preview
\* was applied in the tab; whenever applying fails (content script
\* unreachable, or the preview script's execution fails) the final
\* persisted status is 'failed' with errorMessage set and the response is
\* ok: false.
C31_StatusTransitions ==
    /\ temp.pc # "idle" => temp.saved[1] = "pending"
    /\ TempSettled
          => /\ temp.saved[Len(temp.saved)] = "applied"
                    => temp.preview = "applied"
             /\ temp.preview # "applied"
                    => /\ temp.saved[Len(temp.saved)] = "failed"
                       /\ temp.errorMessage
                       /\ temp.response = "ok:false"

\* ---------------------------------------------------------------------
\* Properties of createMessageRouter.

Routed == routed.pc = "resolved"

\* C33 as stated: the router never rejects; a request of another type
\* yields ok false with 'Unhandled message type' and the handler is not
\* invoked; a handler that throws or rejects yields ok false with the
\* failure's message (for a failure that is not an Error, its text);
\* otherwise ok true with the handler's result.
C33_RouterAlwaysFailureMessage ==
    Routed
        => IF routed.request # routed.type
           THEN /\ routed.response = Unhandled(routed.request)
                /\ ~routed.invoked
           ELSE IF routed.handler.failure # NoFailure
           THEN /\ ~routed.response.ok
                /\ routed.response.error =
                       (IF routed.handler.failure.isError
                        THEN routed.handler.failure.message
                        ELSE routed.handler.failure.text)
           ELSE routed.response.ok /\ routed.response.payload = routed.payload

\* C33: the router always resolves.  A request of another type yields ok
\* false with 'Unhandled message type: <type>' and the handler is not
\* invoked; a handler that throws or rejects with an Error yields ok false
\* with the Error's message, with any other value ok false with
\* 'Unknown handler error'; otherwise ok true with the handler's result.
C33_RouterNeverRejects ==
    /\ routed.pc \in {"idle", "awaiting", "resolved"}
    /\ Routed
        => IF routed.request # routed.type
           THEN /\ routed.response = Unhandled(routed.request)
                /\ ~routed.invoked
           ELSE /\ routed.invoked
                /\ IF routed.handler.failure = NoFailure
                   THEN /\ routed.response.ok
                        /\ routed.response.payload = routed.payload
                   ELSE /\ ~routed.response.ok
                        /\ routed.response.error =
                               (IF routed.handler.failure.isError
                                THEN routed.handler.failure.message
                                ELSE "Unknown handler error")

\* A handler's promise rejected with a value that is not an Error and the
\* router resolved.
C33_Witness ==
    /\ Routed
    /\ routed.invoked
    /\ routed.handler.when = "async"
    /\ routed.handler.failure # NoFailure
    /\ ~routed.handler.failure.isError
    /\ ~routed.response.ok

\* Every applyPreviewScript call made so far has settled.
AllSettled == \A c \in DOMAIN call : ~InFlight(c)

(***************************************************************************)
(* C34: overlapping applyPreviewScript and removePreviewScript calls on    *)
(* one script id, an apply that starts while another is suspended in       *)
(* script execution included: once all of them have settled, the document  *)
(* holds at most one stylesheet tagged with the id, and that stylesheet is *)
(* the one the registry entry of the id owns.                              *)
(***************************************************************************)
C34_OneOwnedStylesheet ==
    AllSettled =>
        \A id \in Ids :
            /\ Cardinality(StylesOf(doc, id)) <= 1
            /\ \A i \in StylesOf(doc, id) :
                  MapHas(previews, id) /\ previews[id].styleEl = doc[i].el

(***************************************************************************)
(* C35: a revoke is never lost.  When removePreviewScript(id) or           *)
(* clearPreviewScripts() ran while an apply for id was suspended, then     *)
(* once that apply settles nothing of it remains: the registry has no      *)
(* entry that it registered and the document no stylesheet that it         *)
(* attached.                                                               *)
(***************************************************************************)
C35_RevokeNeverLost ==
    [][\A c \in DOMAIN call :
          (ApplyFinish(c) /\ <<c, call[c].id>> \in revoked)
              => /\ ~(MapHas(previews', call[c].id)
                        /\ previews'[call[c].id].owner = c)
                 /\ \A i \in DOMAIN doc' : doc'[i].el # c]_vars

\* Cleanup handler h is the cleanup of a registry entry.
HeldByEntry(h) == \E id \in DOMAIN previews : previews[id].cleanup.h = h

(***************************************************************************)
(* C36: every cleanup handler that a successful apply stored is invoked    *)
(* exactly once over its lifetime: never more than once, and once when its *)
(* entry has left the registry (by replace, revoke or clear), whether or   *)
(* not cleanups fail.                                                      *)
(***************************************************************************)
C36_CleanupExactlyOnce ==
    \A h \in stored :
        /\ runs[h] <= 1
        /\ ~HeldByEntry(h) => runs[h] = 1


\* ---------------------------------------------------------------------
\* Properties of AiGenerate requests side by side.

Answered(i) == requests[i].pc = "responded"

Cancelled == [ok |-> FALSE, error |-> RequestCancelled]

(***************************************************************************)
(* C37 as stated: per-tab AI generation is single-flight from the arrival  *)
(* of a request.  A request that answers when a later AiGenerate of its    *)
(* tab has arrived does not answer ok: true.                               *)
(***************************************************************************)
C37_CancelledFromArrival ==
    \A i \in DOMAIN requests :
        (Answered(i) /\ requests[i].overtaken) => ~requests[i].response.ok

(***************************************************************************)
(* C37: per-tab AI generation is single-flight from aiJobManager.run.      *)
(* Once a request of a tab has called run, every request of that tab that  *)
(* called run before it and has not answered has its signal aborted, and   *)
(* answers ok: false with 'Request cancelled.', never ok: true; a job is   *)
(* aborted only by AiCancel for its tab or by a request of its own tab; at *)
(* most one job per tab is registered, and it is the one that called run   *)
(* last.                                                                   *)
(***************************************************************************)
C37_SingleFlightPerTab ==
    /\ \A i \in DOMAIN requests :
          /\ (requests[i].pc = "generating" /\ LaterRuns(i) # {})
                => requests[i].aborted
          /\ (Answered(i) /\ requests[i].superseded)
                => requests[i].response = Cancelled
          /\ (Answered(i) /\ requests[i].aborted /\ requests[i].ran # 0)
                => requests[i].response = Cancelled
          /\ requests[i].by \in DOMAIN requests
                => requests[requests[i].by].tab = requests[i].tab
          /\ requests[i].aborted => requests[i].by # 0
    /\ \A tab \in DOMAIN active :
          /\ requests[active[tab]].tab = tab
          /\ requests[active[tab]].pc = "generating"
          /\ ~requests[active[tab]].aborted
          /\ LaterRuns(active[tab]) = {}

\* A request was cancelled by a later request of its tab and answered
\* 'Request cancelled.', while a request of the other tab, under way at the
\* same time, answered ok: true.
C37_Witness ==
    \E i, j, k \in DOMAIN requests :
        /\ requests[i].tab = requests[j].tab
        /\ requests[k].tab # requests[i].tab
        /\ requests[i].by = j
        /\ Answered(i) /\ requests[i].superseded
        /\ requests[i].response = Cancelled
        /\ k < j
        /\ Answered(k) /\ requests[k].response.ok /\ ~requests[k].aborted


(***************************************************************************)
(* C38: capture state agreement.  Whenever no message is on its way, a tab *)
(* is in the background's capturingTabs if and only if isCapturing is true *)
(* in its content script, after any sequence of SelectorCaptureStart,      *)
(* SelectorCaptureStop, clicks on elements and Escape key presses.         *)
(***************************************************************************)
C38_CaptureAgreement ==
    channel = {} => \A tab \in Tabs : (tab \in capturingTabs) <=> isCapturing[tab]

====
